---- MODULE Spec2Model ----
(***************************************************************************)
(* A model of the MAGMA backend: the SQLite cache store of                 *)
(* backend/data_pipeline.py (prices, fundamentals, news), the portfolio    *)
(* store and valuation engine of backend/portfolio_manager.py, and the     *)
(* refresh orchestration of backend/app.py.                                *)
(*                                                                         *)
(* Text values are sequences of one-character strings, so that upper()     *)
(* and strip() are computed character by character.  news is the sequence  *)
(* of its rows in rowid order (get_latest_news orders by id); prices and   *)
(* fundamentals, which no query orders by id, are the sets of their rows.  *)
(***************************************************************************)
EXTENDS Integers, Sequences, FiniteSets, TLC

VARIABLES
    family,         \* which part of the store a run exercises: one record
                    \* family (Spec), the portfolio or the refresh
    tablesCreated,  \* names of the tables CREATE TABLE IF NOT EXISTS has made
    prices,         \* committed rows of prices
    fundamentals,   \* committed rows of fundamentals
    news,           \* committed rows of news
    holdings,       \* committed rows of holdings
    transactions,   \* committed rows of transactions
    clock,          \* the latest reading of the wall clock
    conn,           \* the connection opened by the store operation in flight
    ret,            \* how the latest store operation ended
    written,        \* history: per (symbol, date), the bar committed last
    newsLatest,     \* history: per url, the content committed last
    newsFirst,      \* history: per url, the symbol committed first
    finnhub_enabled,\* providers.finnhub.enabled of config.yaml
    rf              \* the refresh in flight: its position and its locals

vars == <<family, tablesCreated, prices, fundamentals, news, holdings,
          transactions, clock, conn, ret, written, newsLatest, newsFirst,
          finnhub_enabled, rf>>

---------------------------------------------------------------------------
(* Bounds *)

MaxBatch == 2       \* longest list handed to upsert_prices / upsert_news
MaxClock == 2       \* latest timestamp the wall clock reaches

---------------------------------------------------------------------------
(* Text *)

AAPL == <<"A", "A", "P", "L">>
MSFT == <<"M", "S", "F", "T">>
None == <<"None">>          \* Python None / SQL NULL in a text column
NoneStr == "<None>"         \* the same in a column the model keeps as a string

Whitespace == {" "}

UpperChar(c) ==
    CASE c = "a" -> "A" [] c = "p" -> "P" [] c = "l" -> "L"
      [] c = "m" -> "M" [] c = "s" -> "S" [] c = "f" -> "F" [] c = "t" -> "T"
      [] OTHER -> c

upper(s) == [i \in DOMAIN s |-> UpperChar(s[i])]

RECURSIVE lstrip(_)
lstrip(s) == IF s # <<>> /\ Head(s) \in Whitespace THEN lstrip(Tail(s)) ELSE s

RECURSIVE rstrip(_)
rstrip(s) ==
    IF s # <<>> /\ s[Len(s)] \in Whitespace
    THEN rstrip(SubSeq(s, 1, Len(s) - 1))
    ELSE s

strip(s) == rstrip(lstrip(s))

---------------------------------------------------------------------------
(* Inputs *)

Dates == {"2024-01-02", "2024-01-03"}

\* Two different bars' worth of values.
Ohlcv ==
    { [open |-> 1, high |-> 3, low |-> 1, close |-> 2, adj_close |-> 2, volume |-> 10],
      [open |-> 4, high |-> 6, low |-> 4, close |-> 5, adj_close |-> 5, volume |-> 20] }

PriceBar(s, d, v) ==
    [symbol |-> s, date |-> d, open |-> v.open, high |-> v.high, low |-> v.low,
     close |-> v.close, adj_close |-> v.adj_close, volume |-> v.volume]

PriceKeys ==
    { <<AAPL, "2024-01-02">>, <<AAPL, "2024-01-03">>, <<MSFT, "2024-01-02">> }

Bars == { PriceBar(k[1], k[2], v) : k \in PriceKeys, v \in Ohlcv }

SeqsUpTo(S, n) == UNION { [1..k -> S] : k \in 0..n }

BarBatches == SeqsUpTo(Bars, MaxBatch)

\* The dicts handed to upsert_fundamentals, as the sequence of their items
\* in dict order.  A value is a Python value: a str or a float.
PyStrVal(s) == [t |-> "str", s |-> s]
PyFloat(w, f) == [t |-> "float", whole |-> w, frac |-> f]
PyInt(n) == [t |-> "int", n |-> n]

FundDicts ==
    { <<>>,
      << [k |-> "name", v |-> PyStrVal(<<"A", "p", "p", "l", "e">>)],
         [k |-> "sector", v |-> PyStrVal(<<"T", "e", "c", "h">>)] >>,
      << [k |-> "name", v |-> PyStrVal(<<"A", "I">>)] >> }

FundSymbols == {AAPL, MSFT}

NewsT1 == [title |-> "t1", published |-> "p1", summary |-> "s1", source |-> "f1"]
NewsT2 == [title |-> "t2", published |-> "p2", summary |-> "s2", source |-> "f2"]

NewsEntry(sym, url, c) ==
    [symbol |-> sym, title |-> c.title, url |-> url, published |-> c.published,
     summary |-> c.summary, source |-> c.source]

\* An entry whose dict has no "title": e.get("title") is None.
UntitledEntry ==
    [symbol |-> None, title |-> NoneStr, url |-> "https://x/1",
     published |-> "p1", summary |-> "s1", source |-> "f1"]

\* fetch_news_rss leaves symbol None unless a requested symbol occurs in the
\* entry's text.
NewsEntries ==
    { NewsEntry(None, "https://x/1", NewsT1), NewsEntry(AAPL, "https://x/1", NewsT2),
      NewsEntry(AAPL, "https://x/2", NewsT1), NewsEntry(None, "https://x/2", NewsT2),
      UntitledEntry }

NewsBatches == SeqsUpTo(NewsEntries, MaxBatch)

---------------------------------------------------------------------------
(* str(v) of a fundamentals value (data_pipeline.py:326) *)

Digit(n) ==
    CASE n = 0 -> "0" [] n = 1 -> "1" [] n = 2 -> "2" [] n = 3 -> "3"
      [] n = 4 -> "4" [] n = 5 -> "5" [] n = 6 -> "6" [] n = 7 -> "7"
      [] n = 8 -> "8" [] OTHER -> "9"

str(v) ==
    IF v.t = "str" THEN v.s
    ELSE IF v.t = "int" THEN <<Digit(v.n)>>
    ELSE <<Digit(v.whole), ".", Digit(v.frac)>>

---------------------------------------------------------------------------
(* Rows and the three upsert statements *)

\* A variant that keeps the stored row on a conflict (ON CONFLICT DO NOTHING).
upsert_prices_row_ignore(t, b) ==
    IF \E r \in t : r.symbol = b.symbol /\ r.date = b.date THEN t ELSE t \cup {b}

\* INSERT INTO prices ... ON CONFLICT(symbol, date) DO UPDATE SET open=..., ...
upsert_prices_row(t, b) ==
    IF \E r \in t : r.symbol = b.symbol /\ r.date = b.date
    THEN { IF r.symbol = b.symbol /\ r.date = b.date
           THEN [r EXCEPT !.open = b.open, !.high = b.high, !.low = b.low,
                          !.close = b.close, !.adj_close = b.adj_close,
                          !.volume = b.volume]
           ELSE r : r \in t }
    ELSE t \cup {b}

\* INSERT INTO fundamentals ... ON CONFLICT(symbol, key) DO UPDATE SET value, as_of
upsert_fundamentals_row(t, r) ==
    IF \E x \in t : x.symbol = r.symbol /\ x.key = r.key
    THEN { IF x.symbol = r.symbol /\ x.key = r.key
           THEN [x EXCEPT !.value = r.value, !.as_of = r.as_of]
           ELSE x : x \in t }
    ELSE t \cup {r}

\* A variant that keeps the stored row on a conflict (INSERT OR IGNORE).
upsert_news_row_ignore(t, e) ==
    IF \E i \in DOMAIN t : t[i].url = e.url THEN t ELSE Append(t, e)

\* A variant whose DO UPDATE also sets symbol=excluded.symbol.
upsert_news_row_retag(t, e) ==
    IF \E i \in DOMAIN t : t[i].url = e.url
    THEN [i \in DOMAIN t |-> IF t[i].url = e.url THEN e ELSE t[i]]
    ELSE Append(t, e)

\* INSERT INTO news ... ON CONFLICT(url) DO UPDATE SET title, published, summary, source
upsert_news_row(t, e) ==
    IF \E i \in DOMAIN t : t[i].url = e.url
    THEN [i \in DOMAIN t |->
            IF t[i].url = e.url
            THEN [t[i] EXCEPT !.title = e.title, !.published = e.published,
                              !.summary = e.summary, !.source = e.source]
            ELSE t[i]]
    ELSE Append(t, e)

\* The NOT NULL columns of the three tables: a row that leaves one NULL makes
\* its statement raise sqlite3.IntegrityError.
NotNullViolated(op, row) ==
    CASE op = "upsert_prices" -> row.symbol = None \/ row.date = NoneStr
      [] op = "upsert_fundamentals" -> row.symbol = None \/ row.key = NoneStr
      [] OTHER -> row.title = NoneStr \/ row.url = NoneStr

UpsertRow(op, t, row) ==
    CASE op = "upsert_prices" -> upsert_prices_row(t, row)
      [] op = "upsert_fundamentals" -> upsert_fundamentals_row(t, row)
      [] OTHER -> upsert_news_row(t, row)

\* A variant that counts a statement only when it changes the table.
total_changes_if_modified(c, row) ==
    c.changes + (IF UpsertRow(c.op, c.work, row) = c.work THEN 0 ELSE 1)

\* conn.total_changes once one more statement has run: sqlite3 counts every
\* row a statement inserts or updates, an ON CONFLICT DO UPDATE that writes
\* equal values included.
total_changes(c, row) == c.changes + 1

\* items = [(symbol, k, str(v), as_of) for k, v in fundamentals.items()]
FundItems(symbol, d, as_of) ==
    [i \in DOMAIN d |->
        [symbol |-> symbol, key |-> d[i].k, value |-> str(d[i].v), as_of |-> as_of]]

---------------------------------------------------------------------------
(* The connection of one store operation: the _db context manager *)

NoConn == [open |-> FALSE]

\* No refresh in flight.
NoFetch == [fetched |-> <<>>, offer |-> <<>>]
NoRefresh ==
    [pc |-> "idle", request |-> <<>>, symbols |-> <<>>, i |-> 0, price_changes |-> 0,
     fund_changes_total |-> 0, log |-> <<>>, fetch |-> NoFetch]

\* A table with no rows.
Empty(op) == IF op = "upsert_news" THEN <<>> ELSE {}

\* How a store operation ended: args is the batch of a call that returned,
\* executed the number of statements that ran.  pre is the table as the call found it, kept
\* for a call that raised or that repeated the preceding batch; post is the
\* table handed to conn.commit(), kept for a call that returned. failure is
\* "store" when an upsert inside the operation raised. consistent is kept
\* beside the result of a portfolio read made statement by statement: what a
\* read of one committed state of the store would have returned.
NoRet ==
    [op |-> "none", raised |-> FALSE, value |-> 0, args |-> <<>>, executed |-> 0,
     pre |-> {}, post |-> {}, rel |-> "first", prevValue |-> 0,
     symbol |-> None, as_of |-> 0, failure |-> "none", consistent |-> {}]

Committed(op) ==
    CASE op = "upsert_prices" -> prices
      [] op = "upsert_fundamentals" -> fundamentals
      [] OTHER -> news

\* sqlite3.connect(...) and the two PRAGMAs, up to the yield: the connection
\* sees the committed table, and has changed nothing yet.
\* seen is what a reader on another connection got while this one was open.
Unread == [read |-> FALSE, table |-> {}, at |-> 0]

db_enter(op, rows, rel, prevValue, symbol, as_of) ==
    [open |-> TRUE, op |-> op, work |-> Committed(op), todo |-> rows,
     changes |-> 0, pre |-> Committed(op), args |-> rows,
     rel |-> rel, prevValue |-> prevValue, symbol |-> symbol, as_of |-> as_of,
     seen |-> Unread]

\* A variant that commits in the finally clause, whether the body raised or not.
db_exit_commit_always(c, committed, ok) == c.work

\* What the table holds once _db is left: conn.commit() is reached only when
\* the body did not raise; conn.close() in the finally clause drops what was
\* not committed.
db_exit(c, committed, ok) == IF ok THEN c.work ELSE committed

Returned(c, ok) ==
    [op |-> c.op, raised |-> ~ok, value |-> IF ok THEN c.changes ELSE 0,
     args |-> IF ok THEN c.args ELSE <<>>, executed |-> c.changes,
     pre |-> IF ok /\ c.rel # "identical" THEN Empty(c.op) ELSE c.pre,
     post |-> IF ok THEN c.work ELSE Empty(c.op),
     rel |-> IF ok THEN c.rel ELSE "first",
     prevValue |-> IF ok THEN c.prevValue ELSE 0,
     symbol |-> c.symbol, as_of |-> c.as_of, failure |-> "none", consistent |-> {}]

\* if not bars: return 0 (no connection is opened).
ReturnedEmpty(op, rel, prevValue, symbol) ==
    [NoRet EXCEPT !.op = op, !.rel = rel, !.prevValue = prevValue,
                  !.symbol = symbol, !.post = Committed(op),
                  !.pre = IF rel = "identical" THEN Committed(op) ELSE Empty(op)]

---------------------------------------------------------------------------
(* History of what was committed, kept beside the tables *)

BarKey(b) == <<b.symbol, b.date>>

RECURSIVE LatestBars(_, _)
LatestBars(w, bars) ==
    IF bars = <<>> THEN w
    ELSE LatestBars({ x \in w : BarKey(x) # BarKey(Head(bars)) } \cup {Head(bars)},
                    Tail(bars))

Content(e) ==
    [url |-> e.url, title |-> e.title, published |-> e.published,
     summary |-> e.summary, source |-> e.source]

RECURSIVE LatestContent(_, _)
LatestContent(w, es) ==
    IF es = <<>> THEN w
    ELSE LatestContent({ x \in w : x.url # Head(es).url } \cup {Content(Head(es))},
                       Tail(es))

RECURSIVE FirstSymbols(_, _)
FirstSymbols(w, es) ==
    IF es = <<>> THEN w
    ELSE FirstSymbols(
            IF \E x \in w : x.url = Head(es).url THEN w
            ELSE w \cup {[url |-> Head(es).url, symbol |-> Head(es).symbol]},
            Tail(es))

\* What the preceding upsert_prices call returned, when this batch repeats its
\* batch or its keys.
PrevValue(rel) == IF rel \in {"identical", "samekeys"} THEN ret.value ELSE 0

\* How a batch relates to the batch of the preceding call, when that was an
\* upsert_prices that returned.
Relation(bars) ==
    IF ret.op # "upsert_prices" \/ ret.raised THEN "first"
    ELSE IF bars = ret.args THEN "identical"
    ELSE IF /\ Len(bars) = Len(ret.args)
            /\ \A i \in DOMAIN bars : BarKey(bars[i]) = BarKey(ret.args[i])
         THEN "samekeys"
    ELSE "other"

---------------------------------------------------------------------------
(* Store operations, one record family at a time *)

historyVars == <<written, newsLatest, newsFirst>>
tableVars == <<prices, fundamentals, news>>
portfolioVars == <<holdings, transactions>>
refreshVars == <<finnhub_enabled, rf>>

\* _init_prices_db(): its own connection, committed before the upsert opens its own.
init_prices_db == tablesCreated \cup {"prices", "fundamentals"}
init_news_db == tablesCreated \cup {"news"}

upsert_prices(bars) ==
    /\ family = "prices"
    /\ ~conn.open
    /\ IF bars = <<>>
       THEN /\ ret' = ReturnedEmpty("upsert_prices", Relation(bars),
                                    PrevValue(Relation(bars)), None)
            /\ UNCHANGED <<tablesCreated, conn>>
       ELSE /\ tablesCreated' = init_prices_db
            /\ conn' = db_enter("upsert_prices", bars, Relation(bars),
                                PrevValue(Relation(bars)), None, 0)
            /\ ret' = NoRet
    /\ UNCHANGED <<family, tableVars, portfolioVars, clock, historyVars, refreshVars>>

upsert_fundamentals(symbol, d, now) ==
    /\ family = "fundamentals"
    /\ ~conn.open
    /\ IF d = <<>>
       THEN /\ ret' = ReturnedEmpty("upsert_fundamentals", "first", 0, symbol)
            /\ UNCHANGED <<tablesCreated, conn, clock>>
       ELSE /\ tablesCreated' = init_prices_db
            /\ clock' = now
            /\ conn' = db_enter("upsert_fundamentals", FundItems(symbol, d, now),
                                "first", 0, symbol, now)
            /\ ret' = NoRet
    /\ UNCHANGED <<family, tableVars, portfolioVars, historyVars, refreshVars>>

upsert_news(entries) ==
    /\ family = "news"
    /\ ~conn.open
    /\ IF entries = <<>>
       THEN /\ ret' = ReturnedEmpty("upsert_news", "first", 0, None)
            /\ UNCHANGED <<tablesCreated, conn>>
       ELSE /\ tablesCreated' = init_news_db
            /\ conn' = db_enter("upsert_news", entries, "first", 0, None, 0)
            /\ ret' = NoRet
    /\ UNCHANGED <<family, tableVars, portfolioVars, clock, historyVars, refreshVars>>

\* A variant that closes after conn.commit() only, outside any finally clause.
db_close_after_commit(c, ok) == IF ok THEN NoConn ELSE c

\* finally: conn.close(), whether the body and conn.commit() ran or raised.
db_close(c, ok) == NoConn

\* Leaving _db: the table of the operation becomes db_exit's, the others stay.
Leave(ok) ==
    /\ prices' = IF conn.op = "upsert_prices" THEN db_exit(conn, prices, ok) ELSE prices
    /\ fundamentals' = IF conn.op = "upsert_fundamentals"
                       THEN db_exit(conn, fundamentals, ok) ELSE fundamentals
    /\ news' = IF conn.op = "upsert_news" THEN db_exit(conn, news, ok) ELSE news
    /\ ret' = Returned(conn, ok)
    /\ conn' = db_close(conn, ok)

\* One statement of executemany: it raises on a NOT NULL violation, and the
\* exception leaves _db through the finally clause.
executemany_step ==
    /\ conn.open
    /\ conn.todo # <<>>
    /\ IF NotNullViolated(conn.op, Head(conn.todo))
       THEN Leave(FALSE)
       ELSE /\ conn' = [conn EXCEPT !.work = UpsertRow(conn.op, @, Head(conn.todo)),
                                    !.todo = Tail(@),
                                    !.changes = total_changes(conn, Head(conn.todo))]
            /\ UNCHANGED <<tableVars, ret>>
    /\ UNCHANGED <<family, tablesCreated, portfolioVars, clock, historyVars,
                   refreshVars>>

\* A statement that raises for a reason outside the program (sqlite3.Error:
\* disk I/O error, database is locked).
executemany_error ==
    /\ conn.open
    /\ conn.todo # <<>>
    /\ Leave(FALSE)
    /\ UNCHANGED <<family, tablesCreated, portfolioVars, clock, historyVars,
                   refreshVars>>

\* return conn.total_changes, then conn.commit() and conn.close().
db_commit ==
    /\ conn.open
    /\ conn.todo = <<>>
    /\ Leave(TRUE)
    /\ written' = IF conn.op = "upsert_prices"
                  THEN LatestBars(written, conn.args) ELSE written
    /\ newsLatest' = IF conn.op = "upsert_news"
                     THEN LatestContent(newsLatest, conn.args) ELSE newsLatest
    /\ newsFirst' = IF conn.op = "upsert_news"
                    THEN FirstSymbols(newsFirst, conn.args) ELSE newsFirst
    /\ UNCHANGED <<family, tablesCreated, portfolioVars, clock, refreshVars>>

\* A variant in which the statements of an open connection show at once.
visible_uncommitted(c, committed) == c.work

\* What a SELECT of another connection reads while c is open: executemany
\* begins a transaction before its first INSERT, and what runs inside it
\* shows to no other connection before conn.commit().
visible(c, committed) == committed

\* get_latest_prices, get_fundamentals, get_latest_news or a SELECT of
\* get_portfolio_data, on a connection of its own, while an upsert of the
\* table is under way.
concurrent_read ==
    /\ conn.open
    /\ conn' = [conn EXCEPT !.seen = [read |-> TRUE,
                                      table |-> visible(conn, Committed(conn.op)),
                                      at |-> conn.changes]]
    /\ UNCHANGED <<family, tablesCreated, tableVars, portfolioVars, clock, ret,
                   historyVars, refreshVars>>

Init ==
    /\ family \in {"prices", "fundamentals", "news"}
    /\ tablesCreated = {}
    /\ prices = {}
    /\ fundamentals = {}
    /\ news = <<>>
    /\ holdings = {}
    /\ transactions = <<>>
    /\ clock = 0
    /\ conn = NoConn
    /\ ret = NoRet
    /\ written = {}
    /\ newsLatest = {}
    /\ newsFirst = {}
    /\ finnhub_enabled = TRUE
    /\ rf = NoRefresh

Next ==
    \/ \E bars \in BarBatches : upsert_prices(bars)
    \/ \E s \in FundSymbols, d \in FundDicts, now \in clock..MaxClock :
          upsert_fundamentals(s, d, now)
    \/ \E es \in NewsBatches : upsert_news(es)
    \/ executemany_step
    \/ executemany_error
    \/ db_commit
    \/ concurrent_read

Spec == Init /\ [][Next]_vars

---------------------------------------------------------------------------
(* Properties of the cache store, checked under Spec *)

Returns(op) == ret.op = op /\ ~ret.raised

\* C1: after any sequence of upsert_prices calls, prices holds at most one row
\* per (symbol, date), and the rows are exactly the bars written last for each
\* key (a later call overrides an earlier one, a later element of a batch an
\* earlier one); a call that repeats the preceding batch leaves the table as it
\* found it.
C1_PricesOneRowPerKeyLatest ==
    /\ \A r1, r2 \in prices : BarKey(r1) = BarKey(r2) => r1 = r2
    /\ prices = written
    /\ (Returns("upsert_prices") /\ ret.rel = "identical") => prices = ret.pre

\* A key written by two elements of one batch with different values, in a call
\* that followed a call writing the same keys with other values.
C1_Witness ==
    /\ Returns("upsert_prices")
    /\ ret.rel = "samekeys"
    /\ Len(ret.args) = 2
    /\ BarKey(ret.args[1]) = BarKey(ret.args[2])
    /\ ret.args[1] # ret.args[2]
    /\ prices = {ret.args[2]}

\* C2: a batch upsert is all-or-nothing.  Nothing of a batch is committed while
\* its statements run; a call that raised leaves the committed table as it
\* found it; a call that returned ran every statement of its batch, and the
\* committed table is the one those statements produced, holding a row for
\* every element of the batch.
RowOf(op, table, x) ==
    CASE op = "upsert_prices" ->
            \E r \in table : r.symbol = x.symbol /\ r.date = x.date
      [] op = "upsert_fundamentals" ->
            \E r \in table : r.symbol = x.symbol /\ r.key = x.key
      [] OTHER -> \E i \in DOMAIN table : table[i].url = x.url

C2_BatchAllOrNothing ==
    /\ conn.open => Committed(conn.op) = conn.pre
    /\ (ret.op # "none" /\ ret.raised) => Committed(ret.op) = ret.pre
    /\ (ret.op # "none" /\ ~ret.raised) =>
          /\ ret.executed = Len(ret.args)
          /\ Committed(ret.op) = ret.post
          /\ \A i \in DOMAIN ret.args : RowOf(ret.op, Committed(ret.op), ret.args[i])

\* A call that raised after one of its statements had run.
C2_Witness == ret.op # "none" /\ ret.raised /\ ret.executed >= 1

\* C6 as claimed: after upsert_fundamentals(symbol, attrs) with non-empty attrs
\* every fundamentals row of the symbol carries the as_of of this call; with
\* empty attrs the call returns 0 and changes nothing.
C6_FundamentalsReplacedWholesale ==
    /\ (Returns("upsert_fundamentals") /\ ret.args # <<>>) =>
          \A r \in fundamentals : r.symbol = ret.symbol => r.as_of = ret.as_of
    /\ (Returns("upsert_fundamentals") /\ ret.args = <<>>) =>
          ret.value = 0 /\ fundamentals = ret.post

\* C7: after any sequence of upsert_news calls, news holds at most one row per
\* url, and that row's title, published, summary and source are those of the
\* item upserted last with that url.
C7_NewsOneRowPerUrlLatest ==
    /\ \A i, j \in DOMAIN news : news[i].url = news[j].url => i = j
    /\ { Content(news[i]) : i \in DOMAIN news } = newsLatest

\* Two items of one url with different titles, upserted in one call.
C7_Witness ==
    /\ Returns("upsert_news")
    /\ Len(ret.args) = 2
    /\ ret.args[1].url = ret.args[2].url
    /\ ret.args[1].title # ret.args[2].title
    /\ \E i \in DOMAIN news : Content(news[i]) = Content(ret.args[2])

\* C8: upsert_news of an item whose url is stored leaves the row's symbol as it
\* was first written, whatever symbol the new item carries.
C8_NewsSymbolFirstWriteWins ==
    \A i \in DOMAIN news :
        [url |-> news[i].url, symbol |-> news[i].symbol] \in newsFirst

\* A tagged item upserted over a stored row whose symbol is null.
C8_Witness ==
    /\ Returns("upsert_news")
    /\ \E i \in DOMAIN news, j \in DOMAIN ret.args :
          /\ news[i].url = ret.args[j].url
          /\ news[i].symbol = None
          /\ ret.args[j].symbol = AAPL
          /\ news[i].title = ret.args[j].title

\* C9 as claimed: a second upsert_prices call with the batch of the first
\* returns 0, and one with the same keys and other values returns what the
\* first returned.
C9_RepeatReturnsZero ==
    /\ (Returns("upsert_prices") /\ ret.rel = "identical") => ret.value = 0
    /\ (Returns("upsert_prices") /\ ret.rel = "samekeys") => ret.value = ret.prevValue

\* C9 as amended: a second upsert_prices call with the keys of the first, its
\* values equal or not, returns what the first returned: the number of bars of
\* the batch.
C9_RepeatReturnsSameCount ==
    (Returns("upsert_prices") /\ ret.rel \in {"identical", "samekeys"}) =>
        ret.value = ret.prevValue /\ ret.value = Len(ret.args)

\* A non-empty batch upserted twice in a row.
C9_Witness ==
    Returns("upsert_prices") /\ ret.rel = "identical" /\ Len(ret.args) >= 1

\* C21: a reader that runs while a batch upsert is under way reads the table
\* as it was committed before the batch, with none of the batch's rows, however
\* many statements of the batch have run; it never reads a part of the batch.
C21_ReaderSeesNoPartialBatch ==
    (conn.open /\ conn.seen.read) => conn.seen.table = conn.pre

\* A read made after one statement of a batch had changed the table, with
\* another statement of the batch still to run.
C21_Witness ==
    /\ conn.open
    /\ conn.seen.read
    /\ conn.seen.at >= 1
    /\ conn.seen.at < Len(conn.args)
    /\ conn.work # conn.pre
    /\ conn.seen.table = conn.pre

---------------------------------------------------------------------------
(* A store operation run from its call to its return *)

\* conn.executemany(sql, rows) on a connection c: the statements run in order
\* until one raises.
RECURSIVE executemany(_, _)
executemany(c, rows) ==
    IF rows = <<>> THEN c
    ELSE IF NotNullViolated(c.op, Head(rows)) THEN [c EXCEPT !.ok = FALSE]
    ELSE executemany([c EXCEPT !.work = UpsertRow(c.op, @, Head(rows)),
                               !.changes = total_changes(c, Head(rows))],
                     Tail(rows))

\* with _db(path) as conn: conn.executemany(sql, rows); return conn.total_changes
call_upsert(op, committed, rows) ==
    LET c == executemany([op |-> op, work |-> committed, changes |-> 0, ok |-> TRUE],
                         rows)
    IN  [raised |-> ~c.ok,
         table |-> db_exit(c, committed, c.ok),
         value |-> IF c.ok THEN c.changes ELSE 0]

---------------------------------------------------------------------------
(* The portfolio store and the valuation engine: portfolio_manager.py *)

MaxTx == 2          \* most rows of transactions

aapl == <<"a", "a", "p", "l">>
BUY == <<"b", "u", "y">>
SELL == <<"s", "e", "l", "l">>

LowerChar(c) ==
    CASE c = "B" -> "b" [] c = "U" -> "u" [] c = "Y" -> "y" [] c = "S" -> "s"
      [] c = "E" -> "e" [] c = "L" -> "l" [] c = "H" -> "h" [] c = "O" -> "o"
      [] c = "D" -> "d"
      [] OTHER -> c

lower(s) == [i \in DOMAIN s |-> LowerChar(s[i])]

\* Code points of the characters of the model's tickers, for the text order of
\* ORDER BY ticker ASC.
Ord(c) ==
    CASE c = " " -> 32 [] c = "A" -> 65 [] c = "F" -> 70 [] c = "G" -> 71
      [] c = "L" -> 76 [] c = "M" -> 77 [] c = "O" -> 79 [] c = "P" -> 80
      [] c = "S" -> 83 [] c = "T" -> 84
      [] c = "a" -> 97 [] c = "l" -> 108 [] c = "p" -> 112
      [] OTHER -> 0

RECURSIVE TextLeq(_, _)
TextLeq(a, b) ==
    IF a = <<>> THEN TRUE
    ELSE IF b = <<>> THEN FALSE
    ELSE IF Head(a) = Head(b) THEN TextLeq(Tail(a), Tail(b))
    ELSE Ord(Head(a)) < Ord(Head(b))

\* The text order of the model's dates, for ORDER BY date DESC.
DateRank(d) == IF d = "2024-01-02" THEN 1 ELSE 2

\* The tickers and positions handed to upsert_holding.
RawTickers == { AAPL, <<" ">> \o aapl \o <<" ">>, MSFT }

Positions ==
    { [shares |-> 10, avg_cost |-> 100], [shares |-> 5, avg_cost |-> 0],
      [shares |-> -5, avg_cost |-> 100], [shares |-> 0, avg_cost |-> 0] }

RawActions == { <<"B", "U", "Y", " ">>, <<"h", "o", "l", "d">> }

\* The bars, one to a call, and the dicts that reach the store of a portfolio.
PortfolioBars ==
    { PriceBar(AAPL, "2024-01-02", CHOOSE v \in Ohlcv : v.close = 2),
      PriceBar(AAPL, "2024-01-03", CHOOSE v \in Ohlcv : v.close = 5),
      PriceBar(MSFT, "2024-01-02", CHOOSE v \in Ohlcv : v.close = 5) }

PortfolioBatches == {<<>>} \cup { <<b>> : b \in PortfolioBars }

\* updated_at and at are written by the program and read by none of its
\* queries: the rows keep the column, not the reading of the clock.
utcnow_iso == "utcnow"

\* A variant that stores the ticker as it was given.
normalize_ticker_raw(t) == t

\* ticker.upper().strip()
normalize_ticker(t) == strip(upper(t))

\* _init(): CREATE TABLE IF NOT EXISTS holdings, transactions.
init_portfolio_db == tablesCreated \cup {"holdings", "transactions"}

\* DELETE FROM holdings WHERE ticker=?, or INSERT ... ON CONFLICT(ticker) DO UPDATE.
upsert_holding_rows(t, ticker, shares, avg_cost) ==
    IF shares = 0 THEN { h \in t : h.ticker # ticker }
    ELSE IF \E h \in t : h.ticker = ticker
    THEN { IF h.ticker = ticker
           THEN [h EXCEPT !.shares = shares, !.avg_cost = avg_cost,
                          !.updated_at = utcnow_iso]
           ELSE h : h \in t }
    ELSE t \cup { [ticker |-> ticker, shares |-> shares, avg_cost |-> avg_cost,
                   updated_at |-> utcnow_iso] }

\* cur.rowcount of the DELETE, conn.total_changes of the upsert.
upsert_holding_value(t, ticker, shares) ==
    IF shares = 0 THEN Cardinality({ h \in t : h.ticker = ticker }) ELSE 1

upsert_holding(raw, shares, avg_cost) ==
    /\ family \in {"portfolio", "refresh", "api", "sector", "coerce", "keys"}
    /\ LET ticker == normalize_ticker(raw) IN
       /\ tablesCreated' = init_portfolio_db
       /\ holdings' = upsert_holding_rows(holdings, ticker, shares, avg_cost)
       /\ ret' = [NoRet EXCEPT !.op = "upsert_holding",
                               !.args = <<raw, shares, avg_cost>>,
                               !.value = upsert_holding_value(holdings, ticker, shares)]
    /\ UNCHANGED <<family, tableVars, transactions, clock, conn, historyVars,
                   refreshVars>>

\* A variant that takes any action.
valid_action_any(action) == TRUE

\* action in {"buy", "sell"}
valid_action(action) == action \in {BUY, SELL}

\* A variant that keeps only the new row.
insert_transaction_replace(t, row) == <<row>>

\* INSERT INTO transactions(ticker, action, shares, price, at) VALUES(?,?,?,?,?)
insert_transaction(t, row) == Append(t, row)

record_transaction(raw, action, shares, price) ==
    /\ family \in {"portfolio", "api"}
    /\ tablesCreated' = init_portfolio_db
    /\ IF ~valid_action(strip(lower(action)))
       THEN /\ ret' = [NoRet EXCEPT !.op = "record_transaction", !.raised = TRUE,
                                    !.args = <<raw, action, shares, price>>]
            /\ UNCHANGED transactions
       ELSE /\ Len(transactions) < MaxTx
            /\ transactions' = insert_transaction(transactions,
                   [ticker |-> normalize_ticker(raw), action |-> strip(lower(action)),
                    shares |-> shares, price |-> price, at |-> utcnow_iso])
            /\ ret' = [NoRet EXCEPT !.op = "record_transaction", !.value = 1,
                                    !.args = <<raw, action, shares, price>>]
    /\ UNCHANGED <<family, tableVars, holdings, clock, conn, historyVars, refreshVars>>

\* upsert_prices(bars), from call to return.
upsert_prices_call(bars) ==
    /\ family \in {"portfolio", "sector", "adapters"}
    /\ IF bars = <<>>
       THEN /\ ret' = [NoRet EXCEPT !.op = "upsert_prices"]
            /\ UNCHANGED <<tablesCreated, prices>>
       ELSE LET r == call_upsert("upsert_prices", prices, bars) IN
            /\ tablesCreated' = init_prices_db
            /\ prices' = r.table
            /\ ret' = [NoRet EXCEPT !.op = "upsert_prices", !.raised = r.raised,
                                    !.value = r.value]
    /\ UNCHANGED <<family, fundamentals, news, portfolioVars, clock, conn,
                   historyVars, refreshVars>>

\* upsert_fundamentals(symbol, fundamentals), from call to return.
upsert_fundamentals_call(symbol, d, now) ==
    /\ family \in {"portfolio", "sector", "coerce"}
    /\ IF d = <<>>
       THEN /\ ret' = [NoRet EXCEPT !.op = "upsert_fundamentals"]
            /\ UNCHANGED <<tablesCreated, fundamentals, clock>>
       ELSE LET r == call_upsert("upsert_fundamentals", fundamentals,
                                 FundItems(symbol, d, now)) IN
            /\ tablesCreated' = init_prices_db
            /\ clock' = now
            /\ fundamentals' = r.table
            /\ ret' = [NoRet EXCEPT !.op = "upsert_fundamentals", !.raised = r.raised,
                                    !.value = r.value]
    /\ UNCHANGED <<family, prices, news, portfolioVars, conn, historyVars, refreshVars>>

\* The fundamentals a portfolio's store receives.
PortfolioDicts ==
    { <<>>,
      << [k |-> "sector", v |-> PyStrVal(<<"T", "e", "c", "h">>)],
         [k |-> "pe", v |-> PyFloat(2, 5)] >> }

PortfolioFundSymbols == {AAPL}

\* Optional[float]
Nothing == [some |-> FALSE, v |-> 0]
Just(v) == [some |-> TRUE, v |-> v]

\* x or 0.0
or_zero(x) == IF x.some /\ x.v # 0 THEN x.v ELSE 0

\* A quotient of two floats, kept exact.
Frac(n, d) == [num |-> n, den |-> d]

Digits == {"0", "1", "2", "3", "4", "5", "6", "7", "8", "9"}

DigitValue(c) == CHOOSE n \in 0..9 : Digit(n) = c

RECURSIVE NatOf(_)
NatOf(s) == IF s = <<>> THEN 0 ELSE 10 * NatOf(SubSeq(s, 1, Len(s) - 1)) + DigitValue(s[Len(s)])

IsDigits(s) == \A i \in DOMAIN s : s[i] \in Digits

\* int(text) and float(text) over digits and one point, None where they raise.
int_of(text) ==
    LET s == strip(text) IN
    IF s # <<>> /\ IsDigits(s) THEN Just(PyInt(NatOf(s))) ELSE Nothing

float_of(text) ==
    LET s == strip(text)
        dots == { i \in DOMAIN s : s[i] = "." }
    IN  IF s # <<>> /\ IsDigits(s) THEN Just(PyFloat(NatOf(s), 0))
        ELSE IF Cardinality(dots) = 1 /\ Len(s) > 1
        THEN LET i == CHOOSE j \in dots : TRUE
                 w == SubSeq(s, 1, i - 1)
                 f == SubSeq(s, i + 1, Len(s))
             IN  IF IsDigits(w) /\ IsDigits(f) THEN Just(PyFloat(NatOf(w), NatOf(f)))
                 ELSE Nothing
        ELSE Nothing

coerce_numeric(value) ==
    LET first == IF \E i \in DOMAIN value : value[i] = "."
                 THEN float_of(value) ELSE int_of(value)
    IN  IF first.some THEN first.v
        ELSE IF float_of(value).some THEN float_of(value).v
        ELSE PyStrVal(value)

\* A variant that takes the bar of the least date (ORDER BY date ASC).
latest_close_for_oldest(ticker) ==
    LET rows == { r \in prices : r.symbol = normalize_ticker(ticker) } IN
    IF rows = {} THEN Nothing
    ELSE Just((CHOOSE r \in rows :
                  \A q \in rows : DateRank(q.date) >= DateRank(r.date)).close)

\* SELECT close FROM prices WHERE symbol=? ORDER BY date DESC LIMIT 1
latest_close_for(ticker) ==
    LET rows == { r \in prices : r.symbol = normalize_ticker(ticker) } IN
    IF rows = {} THEN Nothing
    ELSE Just((CHOOSE r \in rows :
                  \A q \in rows : DateRank(q.date) <= DateRank(r.date)).close)

\* The as_of an entry can carry: setdefault keeps that of the first row the
\* SELECT returns, and the SELECT has no ORDER BY.
AsOfPicks ==
    LET symbols == { r.symbol : r \in fundamentals } IN
    { f \in [symbols -> 0..MaxClock] :
        \A s \in symbols : \E r \in fundamentals : r.symbol = s /\ r.as_of = f[s] }

NoEntry == [present |-> FALSE, as_of |-> 0, attrs |-> {}]

\* fundamentals_map.get(ticker.upper().strip(), {}) over _fetch_fundamentals_for
fetch_fundamentals_for(ticker, pick) ==
    LET symbol == normalize_ticker(ticker)
        rows == { r \in fundamentals : r.symbol = symbol /\ r.symbol # <<>> /\ r.key # "" }
    IN  IF rows = {} THEN NoEntry
        ELSE [present |-> TRUE, as_of |-> pick[symbol],
              attrs |-> { [key |-> r.key, value |-> coerce_numeric(r.value)] : r \in rows }]

\* SELECT ticker, shares, avg_cost FROM holdings ORDER BY ticker ASC
RECURSIVE select_holdings(_)
select_holdings(t) ==
    IF t = {} THEN <<>>
    ELSE LET m == CHOOSE h \in t : \A g \in t : TextLeq(h.ticker, g.ticker)
         IN  <<m>> \o select_holdings(t \ {m})

RECURSIVE Sum(_, _)
Sum(seq, field) ==
    IF seq = <<>> THEN 0 ELSE seq[1][field] + Sum(Tail(seq), field)

\* A variant that divides whatever the cost basis. A quotient with den = 0 is
\* the ZeroDivisionError of the division.
pnl_pct_unguarded(pnl, cost_basis) == Frac(pnl * 100, cost_basis)

\* (pnl / cost_basis) * 100 if cost_basis else 0.0
pnl_pct_of(pnl, cost_basis) ==
    IF cost_basis # 0 THEN Frac(pnl * 100, cost_basis) ELSE Frac(0, 1)

\* What formulas.apply_formula does when get_portfolio_data asks for a score:
\* the module or the function is absent, the call raises, or it returns None,
\* a number, or a value float() rejects.
FormulaOutcomes ==
    { [kind |-> "absent", raw |-> 0], [kind |-> "not_implemented", raw |-> 0],
      [kind |-> "raises", raw |-> 0], [kind |-> "none", raw |-> 0],
      [kind |-> "text", raw |-> 0],
      [kind |-> "number", raw |-> -3], [kind |-> "number", raw |-> 4],
      [kind |-> "number", raw |-> 12] }

Max(a, b) == IF a >= b THEN a ELSE b
Min(a, b) == IF a <= b THEN a ELSE b

\* A variant that lets the raw value through.
clamp_score_raw(value) == value

\* max(lower, min(upper, value)) with lower = 0.0, upper = 10.0
clamp_score(value) == Max(0, Min(10, value))

run_formula(formula) ==
    IF formula.kind = "number" THEN Just(clamp_score(formula.raw)) ELSE Nothing

\* The dict of one row, from the close and the fundamentals read for it.
entry_of(h, close, fund) ==
    LET last == or_zero(close)
        market_value == h.shares * last
        cost_basis == h.shares * h.avg_cost
        pnl == market_value - cost_basis
    IN  [ticker |-> h.ticker, shares |-> h.shares, avg_cost |-> h.avg_cost,
         last |-> last, market_value |-> market_value, cost_basis |-> cost_basis,
         pnl |-> pnl,
         pnl_pct |-> pnl_pct_of(pnl, cost_basis),
         fundamentals |-> fund,
         weight |-> Frac(0, 1)]

\* One pass of the loop over the rows.
holding_entry(h, pick) ==
    entry_of(h, latest_close_for(h.ticker), fetch_fundamentals_for(h.ticker, pick))

Unclassified ==
    PyStrVal(<<"U", "n", "c", "l", "a", "s", "s", "i", "f", "i", "e", "d">>)

\* bool(v) of a value _coerce_numeric returns.
truthy(v) ==
    IF v.t = "str" THEN v.s # <<>>
    ELSE IF v.t = "int" THEN v.n # 0
    ELSE v.whole # 0 \/ v.frac # 0

\* a == b of two such values as keys of a dict: 5 and 5.0 are one key.
py_eq(a, b) ==
    IF a.t = "str" \/ b.t = "str" THEN a = b
    ELSE (IF a.t = "int" THEN <<a.n, 0>> ELSE <<a.whole, a.frac>>)
         = (IF b.t = "int" THEN <<b.n, 0>> ELSE <<b.whole, b.frac>>)

\* holding.get("fundamentals", {}).get("sector") or "Unclassified"
sector_of(fund) ==
    LET vs == { a.value : a \in { b \in fund.attrs : b.key = "sector" } } IN
    IF vs = {} THEN Unclassified
    ELSE LET v == CHOOSE x \in vs : TRUE IN
         IF truthy(v) THEN v ELSE Unclassified

\* sector_buckets[sector] = sector_buckets.get(sector, 0.0) + market_value:
\* the dict keeps its keys in the order of their first assignment.
bucket_add(buckets, sector, market_value) ==
    IF \E i \in DOMAIN buckets : py_eq(buckets[i].sector, sector)
    THEN [i \in DOMAIN buckets |->
             IF py_eq(buckets[i].sector, sector)
             THEN [buckets[i] EXCEPT !.value = @ + market_value]
             ELSE buckets[i]]
    ELSE Append(buckets, [sector |-> sector, value |-> market_value])

RECURSIVE sector_buckets(_)
sector_buckets(entries) ==
    IF entries = <<>> THEN <<>>
    ELSE LET n == Len(entries) IN
         bucket_add(sector_buckets(SubSeq(entries, 1, n - 1)),
                    sector_of(entries[n].fundamentals), entries[n].market_value)

\* A variant that leaves the buckets in the order of the dict.
sorted_by_value_unsorted(seq) == seq

\* sorted(..., key=lambda x: x[1], reverse=True): stable, so that buckets of
\* one value keep their order.
RECURSIVE sorted_by_value(_)
sorted_by_value(seq) ==
    IF seq = <<>> THEN <<>>
    ELSE LET n == Len(seq)
             front == sorted_by_value(SubSeq(seq, 1, n - 1))
             k == Cardinality({ i \in DOMAIN front : front[i].value >= seq[n].value })
         IN  SubSeq(front, 1, k) \o <<seq[n]>> \o SubSeq(front, k + 1, Len(front))

sector_exposure(entries, total_value) ==
    LET buckets == sorted_by_value(sector_buckets(entries)) IN
    [i \in DOMAIN buckets |->
        [sector |-> buckets[i].sector,
         weight |-> IF total_value # 0 THEN Frac(buckets[i].value, total_value)
                    ELSE Frac(0, 1),
         value |-> buckets[i].value]]

\* Weights, totals and score, once the loop has built the dicts.
snapshot_of(entries, formula) ==
    LET total_value == Sum(entries, "market_value")
        total_cost == Sum(entries, "cost_basis")
        total_pnl == total_value - total_cost
    IN  [holdings |->
            [i \in DOMAIN entries |->
                IF total_value # 0
                THEN [entries[i] EXCEPT !.weight = Frac(entries[i].market_value, total_value)]
                ELSE entries[i]],
         summary |->
            [total_value |-> total_value, total_cost_basis |-> total_cost,
             total_pnl |-> total_pnl,
             pnl_pct |-> pnl_pct_of(total_pnl, total_cost),
             sector_exposure |-> sector_exposure(entries, total_value),
             health_score |-> run_formula(formula)]]

portfolio_snapshot(pick, formula) ==
    LET rows == select_holdings(holdings) IN
    snapshot_of([i \in DOMAIN rows |-> holding_entry(rows[i], pick)], formula)

\* What get_portfolio_data() hands back: the two SELECTs on fundamentals and
\* prices run only when there is a holding, and raise when the table is missing.
portfolio_data(pick, formula) ==
    IF holdings # {} /\ ~({"fundamentals", "prices"} \subseteq tablesCreated)
    THEN [raised |-> TRUE, value |-> 0]
    ELSE [raised |-> FALSE, value |-> portfolio_snapshot(pick, formula)]

get_portfolio_data(pick, formula) ==
    /\ family \in {"portfolio", "sector", "coerce", "keys"}
    /\ tablesCreated' = init_portfolio_db
    /\ LET r == portfolio_data(pick, formula) IN
       ret' = [NoRet EXCEPT !.op = "get_portfolio_data", !.raised = r.raised,
                            !.value = r.value, !.args = <<formula>>]
    /\ UNCHANGED <<family, tableVars, portfolioVars, clock, conn, historyVars,
                   refreshVars>>

InitPortfolio ==
    /\ family = "portfolio"
    /\ tablesCreated = {}
    /\ prices = {}
    /\ fundamentals = {}
    /\ news = <<>>
    /\ holdings = {}
    /\ transactions = <<>>
    /\ clock = 0
    /\ conn = NoConn
    /\ ret = NoRet
    /\ written = {}
    /\ newsLatest = {}
    /\ newsFirst = {}
    /\ finnhub_enabled = TRUE
    /\ rf = NoRefresh

NextPortfolio ==
    \/ \E raw \in RawTickers, p \in Positions :
          /\ raw = MSFT => p.avg_cost # 0
          /\ upsert_holding(raw, p.shares, p.avg_cost)
    \/ \E action \in RawActions : record_transaction(aapl, action, 1, 2)
    \/ \E bars \in PortfolioBatches : upsert_prices_call(bars)
    \/ \E symbol \in PortfolioFundSymbols, d \in PortfolioDicts, now \in clock..MaxClock :
          upsert_fundamentals_call(symbol, d, now)
    \/ \E pick \in AsOfPicks, formula \in FormulaOutcomes :
          get_portfolio_data(pick, formula)

SpecPortfolio == InitPortfolio /\ [][NextPortfolio]_vars

---------------------------------------------------------------------------
(* Claims about the portfolio *)

\* C3: get_portfolio_data() never fails, not on a store that was never written
\* to either: every stored holding is in the result exactly once, and a
\* holding without a cached bar has last = 0 and market_value = 0.
C3_PortfolioReadNeverFails ==
    ret.op = "get_portfolio_data" =>
        /\ ~ret.raised
        /\ \A h \in holdings :
              Cardinality({ i \in DOMAIN ret.value.holdings :
                              ret.value.holdings[i].ticker = h.ticker }) = 1
        /\ \A i \in DOMAIN ret.value.holdings :
              (~\E r \in prices : r.symbol = ret.value.holdings[i].ticker)
                  => /\ ret.value.holdings[i].last = 0
                     /\ ret.value.holdings[i].market_value = 0

C10_Key(t) == strip(upper(t))

\* C10: the holdings keep at most one row for a ticker in its upper-case,
\* trimmed form and no row with shares = 0; upsert_holding with shares = 0
\* leaves no row for the ticker whatever its case and padding, and with any
\* other shares leaves exactly one row, with the shares and avg_cost given.
C10_HoldingsOneRowPerTicker ==
    /\ \A h, g \in holdings : C10_Key(h.ticker) = C10_Key(g.ticker) => h = g
    /\ \A h \in holdings : h.shares # 0
    /\ ret.op = "upsert_holding" =>
          LET rows == { h \in holdings : C10_Key(h.ticker) = C10_Key(ret.args[1]) } IN
          IF ret.args[2] = 0 THEN rows = {}
          ELSE /\ Cardinality(rows) = 1
               /\ \A h \in rows : h.shares = ret.args[2] /\ h.avg_cost = ret.args[3]

C10_Witness ==
    /\ ret.op = "upsert_holding"
    /\ ret.args[2] = 0
    /\ ret.value = 1
    /\ ret.args[1] # C10_Key(ret.args[1])
    /\ holdings # {}

C11_Action(a) == strip(lower(a))

\* C11: a record_transaction whose action, lower-cased and trimmed, is neither
\* buy nor sell ends in the validation error, and the step leaves the
\* transactions and the holdings as they were: no row is appended.
C11_InvalidActionRejected ==
    [][ (ret'.op = "record_transaction" /\ C11_Action(ret'.args[2]) \notin {BUY, SELL})
           => /\ ret'.raised
              /\ transactions' = transactions
              /\ holdings' = holdings ]_vars

C11_Witness ==
    /\ ret.op = "record_transaction"
    /\ ret.raised
    /\ C11_Action(ret.args[2]) \notin {BUY, SELL}
    /\ transactions # <<>>
    /\ holdings # {}

\* C12: the transactions are an append-only log apart from the holdings: a
\* record_transaction that returns appends exactly one row, for the ticker and
\* action given, and leaves the holdings as they were; no step of any
\* operation changes or removes a row that is there.
C12_TransactionsAppendOnly ==
    [][ /\ Len(transactions') >= Len(transactions)
        /\ SubSeq(transactions', 1, Len(transactions)) = transactions
        /\ (ret'.op = "record_transaction" /\ ~ret'.raised /\ vars' # vars)
              => /\ Len(transactions') = Len(transactions) + 1
                 /\ transactions'[Len(transactions')].ticker = C10_Key(ret'.args[1])
                 /\ transactions'[Len(transactions')].action = C11_Action(ret'.args[2])
                 /\ holdings' = holdings
        /\ (ret'.op # "record_transaction" \/ ret'.raised)
              => transactions' = transactions ]_vars

C12_Witness ==
    /\ ret.op = "record_transaction"
    /\ ~ret.raised
    /\ Len(transactions) = 2
    /\ ret.args[2] # C11_Action(ret.args[2])
    /\ holdings # {}

\* A snapshot was handed back by the latest operation.
Snapshot == ret.op = "get_portfolio_data" /\ ~ret.raised

\* get_portfolio_data raises only where a table it reads was never created.
RaisedForMissingTable ==
    (ret.op = "get_portfolio_data" /\ ret.raised)
        => ~({"fundamentals", "prices"} \subseteq tablesCreated)

Nums(hs) == [i \in DOMAIN hs |-> [n |-> hs[i].weight.num]]

\* C13: in a snapshot whose total value is > 0 every weight is market_value /
\* total_value and the weights sum to 1; in a snapshot whose total value is 0
\* or negative every weight is 0.
C13_WeightsFromPositiveTotal ==
    Snapshot =>
        LET hs == ret.value.holdings
            total == Sum(hs, "market_value")
        IN  IF total > 0
            THEN /\ \A i \in DOMAIN hs :
                       /\ hs[i].weight.den = total
                       /\ hs[i].weight.num = hs[i].market_value
                 /\ Sum(Nums(hs), "n") = total
            ELSE \A i \in DOMAIN hs : hs[i].weight.num = 0

\* C14: no quotient of a snapshot has a zero divisor: a holding whose cost
\* basis is 0 has pnl_pct = 0, a snapshot whose total cost basis is 0 has
\* summary.pnl_pct = 0, and no call fails on a division.
C14_NoDivisionByZero ==
    /\ RaisedForMissingTable
    /\ Snapshot =>
          LET hs == ret.value.holdings
              sm == ret.value.summary
          IN  /\ \A i \in DOMAIN hs :
                    /\ hs[i].pnl_pct.den # 0
                    /\ hs[i].weight.den # 0
                    /\ (hs[i].avg_cost = 0 \/ hs[i].cost_basis = 0) => hs[i].pnl_pct.num = 0
              /\ sm.pnl_pct.den # 0
              /\ sm.total_cost_basis = 0 => sm.pnl_pct.num = 0

C14_Witness ==
    /\ Snapshot
    /\ \E i \in DOMAIN ret.value.holdings :
          /\ ret.value.holdings[i].avg_cost = 0
          /\ ret.value.holdings[i].pnl # 0
    /\ ret.value.summary.total_cost_basis = 0
    /\ ret.value.summary.total_pnl # 0

\* The bars cached for a ticker, and those of the greatest date among them.
C15_Bars(ticker) == { r \in prices : r.symbol = C10_Key(ticker) }
C15_Newest(ticker) ==
    { r \in C15_Bars(ticker) :
        \A q \in C15_Bars(ticker) : DateRank(q.date) <= DateRank(r.date) }

\* C15: in a snapshot every holding has market_value = shares * last,
\* cost_basis = shares * avg_cost and pnl = market_value - cost_basis, with
\* last the close of the bar of the greatest date cached for the symbol; the
\* summary has total_value and total_cost_basis the sums over the holdings
\* and total_pnl their difference, which is the sum of the holdings' pnl.
C15_ValuationArithmetic ==
    Snapshot =>
        LET hs == ret.value.holdings
            sm == ret.value.summary
        IN  /\ \A i \in DOMAIN hs :
                  /\ C15_Bars(hs[i].ticker) # {}
                        => \E r \in C15_Newest(hs[i].ticker) : hs[i].last = r.close
                  /\ hs[i].market_value = hs[i].shares * hs[i].last
                  /\ hs[i].cost_basis = hs[i].shares * hs[i].avg_cost
                  /\ hs[i].pnl = hs[i].market_value - hs[i].cost_basis
            /\ sm.total_value = Sum(hs, "market_value")
            /\ sm.total_cost_basis = Sum(hs, "cost_basis")
            /\ sm.total_pnl = sm.total_value - sm.total_cost_basis
            /\ sm.total_pnl = Sum(hs, "pnl")

C15_Witness ==
    /\ Snapshot
    /\ Len(ret.value.holdings) = 2
    /\ \E i \in DOMAIN ret.value.holdings :
          /\ Cardinality({ r.close : r \in C15_Bars(ret.value.holdings[i].ticker) }) = 2
          /\ ret.value.holdings[i].pnl # 0

\* C16: the summary of a snapshot has a health_score exactly when the scoring
\* function is there and returns a number, and the score is that number
\* brought into 0..10; a function that is absent or raises takes the field
\* away and makes no call fail.
C16_HealthScoreClampedOrOmitted ==
    /\ RaisedForMissingTable
    /\ Snapshot =>
          LET f == ret.args[1]
              score == ret.value.summary.health_score
          IN  /\ score.some <=> f.kind = "number"
              /\ score.some =>
                    /\ 0 <= score.v /\ score.v <= 10
                    /\ score.v = (IF f.raw < 0 THEN 0 ELSE IF f.raw > 10 THEN 10 ELSE f.raw)

C16_Witness ==
    /\ Snapshot
    /\ ret.args[1].kind = "number"
    /\ ret.args[1].raw > 10
    /\ ret.value.summary.health_score = Just(10)
    /\ ret.value.holdings # <<>>

---------------------------------------------------------------------------
(* The refresh: refresh_data of app.py over the provider adapters *)

GOOG == <<"G", "O", "O", "G">>
AMZN == <<"A", "M", "Z", "N">>

\* symbols = holdings or ["AAPL", "MSFT", "GOOG", "AMZN"]
DefaultSymbols == <<AAPL, MSFT, GOOG, AMZN>>

\* The symbols a request names; none stands for a request without symbols.
RefreshRequests == { <<>>, <<AAPL, MSFT>> }

Range(seq) == { seq[i] : i \in DOMAIN seq }

\* The providers know AAPL and MSFT, in any letter case. A candle or time-series request ends in
\* an exception, in a response without data, or in data.
KnownSymbols == {AAPL, MSFT}

FinnhubResponses(symbols) ==
    { f \in [Range(symbols) -> {"error", "no_data", "ok"}] :
        \A x \in Range(symbols) :
           normalize_ticker(x) \notin KnownSymbols => f[x] = "no_data" }

TwelvedataResponses(symbols) ==
    { f \in [Range(symbols) -> {"no_data", "ok"}] :
        \A x \in Range(symbols) :
           normalize_ticker(x) \notin KnownSymbols => f[x] = "no_data" }

\* The bar a provider has for a symbol; adapter names the adapter that built
\* it and is not part of the PriceBar.
ProviderBar(adapter, symbol) ==
    [bar |-> PriceBar(symbol, "2024-01-02", CHOOSE v \in Ohlcv : v.close = 2),
     adapter |-> adapter]

RECURSIVE fetch_prices_finnhub(_, _)
fetch_prices_finnhub(symbols, resp) ==
    IF symbols = <<>> THEN <<>>
    ELSE (IF resp[Head(symbols)] = "ok"
          THEN <<ProviderBar("finnhub", Head(symbols))>> ELSE <<>>)
         \o fetch_prices_finnhub(Tail(symbols), resp)

RECURSIVE fetch_prices_twelvedata(_, _)
fetch_prices_twelvedata(symbols, resp) ==
    IF symbols = <<>> THEN <<>>
    ELSE (IF resp[Head(symbols)] = "ok"
          THEN <<ProviderBar("twelvedata", Head(symbols))>> ELSE <<>>)
         \o fetch_prices_twelvedata(Tail(symbols), resp)

\* A variant that turns to Twelve Data when Finnhub has no bar at all.
fetch_prices_fallback(symbols, r1, r2) ==
    IF symbols = <<>> THEN <<>>
    ELSE IF finnhub_enabled /\ fetch_prices_finnhub(symbols, r1) # <<>>
    THEN fetch_prices_finnhub(symbols, r1)
    ELSE fetch_prices_twelvedata(symbols, r2)

fetch_prices(symbols, r1, r2) ==
    IF symbols = <<>> THEN <<>>
    ELSE IF finnhub_enabled THEN fetch_prices_finnhub(symbols, r1)
    ELSE fetch_prices_twelvedata(symbols, r2)

BarsOf(tagged) == [i \in DOMAIN tagged |-> tagged[i].bar]

\* The providers have a profile, metrics and a quote for AAPL.
ProfiledSymbols == {AAPL}

\* The three requests of fetch_fundamentals: each raises or answers.
FundResponses(symbol) ==
    IF normalize_ticker(symbol) \notin ProfiledSymbols
    THEN { [profile |-> "error", metric |-> "error", quote |-> "error"] }
    ELSE IF finnhub_enabled
    THEN { [profile |-> a, metric |-> b, quote |-> "error"] : a, b \in {"error", "ok"} }
    ELSE { [profile |-> "error", metric |-> "error", quote |-> c] : c \in {"error", "ok"} }

\* {k: v for k, v in mapped.items() if v is not None}
NotNone(mapped) ==
    LET kept == SelectSeq(mapped, LAMBDA e : e.v.some)
    IN  [i \in DOMAIN kept |-> [k |-> kept[i].k, v |-> kept[i].v.v]]

\* The answers carry marketCapitalization, name and finnhubIndustry (profile2),
\* peTTM (metric), market_cap and name (quote), and none of the other fields.
fetch_fundamentals(symbol, resp) ==
    IF finnhub_enabled
    THEN NotNone(<<
            [k |-> "market_cap",
             v |-> IF resp.profile = "ok" \/ resp.metric = "ok"
                   THEN Just(PyFloat(3, 0)) ELSE Nothing],
            [k |-> "trailing_pe",
             v |-> IF resp.metric = "ok" THEN Just(PyFloat(2, 5)) ELSE Nothing],
            [k |-> "forward_pe", v |-> Nothing],
            [k |-> "shares", v |-> Nothing],
            [k |-> "name",
             v |-> IF resp.profile = "ok" THEN Just(PyStrVal(symbol)) ELSE Nothing],
            [k |-> "sector",
             v |-> IF resp.profile = "ok"
                   THEN Just(PyStrVal(<<"T", "e", "c", "h">>)) ELSE Nothing] >>)
    ELSE IF resp.quote = "ok"
    THEN NotNone(<< [k |-> "market_cap", v |-> Just(PyFloat(3, 0))],
                    [k |-> "name", v |-> Just(PyStrVal(symbol))] >>)
    ELSE <<>>

\* The feeds fail, or answer with one headline, which names AAPL; the feed
\* rewrites the headline under its link in time.
FeedResponses == {"error", "ok", "ok_rewritten"}

fetch_news_rss(symbols, feed) ==
    IF feed = "error" THEN <<>>
    ELSE << NewsEntry(IF AAPL \in { upper(x) : x \in Range(symbols) } THEN AAPL ELSE None,
                      "https://x/1", IF feed = "ok" THEN NewsT1 ELSE NewsT2) >>

\* An upsert fails where the database does (a disk error, a crash of the
\* process): the body of _db raises after its first statement ran, and _db is
\* left without conn.commit().
store_upsert(op, committed, rows, fault) ==
    IF fault
    THEN LET c == [op |-> op, ok |-> FALSE, changes |-> 1,
                   work |-> IF rows = <<>> THEN committed
                            ELSE UpsertRow(op, committed, Head(rows))]
         IN  [raised |-> TRUE, table |-> db_exit(c, committed, FALSE), value |-> 0]
    ELSE call_upsert(op, committed, rows)

\* refresh_data has no handler: what an upsert raises leaves refresh_data.
\* args keeps the passes over the symbols made until then.
refresh_raises ==
    /\ ret' = [NoRet EXCEPT !.op = "refresh_data", !.raised = TRUE,
                            !.failure = "store", !.args = rf.log]
    /\ rf' = NoRefresh

\* if not symbols: portfolio = get_portfolio_data(); symbols = holdings or default.
\* The call of get_portfolio_data() may raise, and refresh_data with it.
refresh_data(symbols, pick, formula) ==
    /\ family \in {"refresh", "api", "keys"}
    /\ rf.pc = "idle"
    /\ IF symbols # <<>>
       THEN /\ rf' = [NoRefresh EXCEPT !.pc = "prices", !.request = symbols,
                                       !.symbols = symbols]
            /\ ret' = NoRet
            /\ UNCHANGED tablesCreated
       ELSE LET r == portfolio_data(pick, formula) IN
            /\ tablesCreated' = init_portfolio_db
            /\ IF r.raised
               THEN /\ ret' = [NoRet EXCEPT !.op = "refresh_data", !.raised = TRUE]
                    /\ UNCHANGED rf
               ELSE LET tickers == [i \in DOMAIN r.value.holdings |->
                                       r.value.holdings[i].ticker]
                        named == SelectSeq(tickers, LAMBDA t : t # <<>>)
                    IN  /\ rf' = [NoRefresh EXCEPT
                                    !.pc = "prices",
                                    !.symbols = IF named # <<>> THEN named
                                                ELSE DefaultSymbols]
                        /\ ret' = NoRet
    /\ UNCHANGED <<family, tableVars, portfolioVars, clock, conn, historyVars,
                   finnhub_enabled>>

\* price_bars = dp.fetch_prices(symbols); price_changes = dp.upsert_prices(price_bars)
refresh_prices ==
    /\ family \in {"refresh", "api", "keys"}
    /\ rf.pc = "prices"
    /\ \E r1 \in FinnhubResponses(rf.symbols), r2 \in TwelvedataResponses(rf.symbols),
          fault \in BOOLEAN :
          LET fetched == fetch_prices(rf.symbols, r1, r2)
              r == store_upsert("upsert_prices", prices, BarsOf(fetched), fault)
          IN  IF fetched = <<>>
              THEN /\ rf' = [rf EXCEPT !.pc = "fundamentals", !.i = 1,
                                       !.fetch = [fetched |-> fetched,
                                                  offer |-> [finnhub |-> fetch_prices_finnhub(rf.symbols, r1),
                                                             twelvedata |-> fetch_prices_twelvedata(rf.symbols, r2)]]]
                   /\ UNCHANGED <<tablesCreated, prices, ret>>
              ELSE /\ tablesCreated' = init_prices_db
                   /\ prices' = r.table
                   /\ IF r.raised
                      THEN refresh_raises
                      ELSE /\ rf' = [rf EXCEPT
                                       !.pc = "fundamentals", !.i = 1,
                                       !.price_changes = r.value,
                                       !.fetch = [fetched |-> fetched,
                                                  offer |-> [finnhub |-> fetch_prices_finnhub(rf.symbols, r1),
                                                             twelvedata |-> fetch_prices_twelvedata(rf.symbols, r2)]]]
                           /\ UNCHANGED ret
    /\ UNCHANGED <<family, fundamentals, news, portfolioVars, clock, conn,
                   historyVars, finnhub_enabled>>

\* One pass of: for s in symbols: fund_changes_total += dp.upsert_fundamentals(
\* s, dp.fetch_fundamentals(s)). price_bars is dead from here on.
refresh_fundamentals(now) ==
    /\ family \in {"refresh", "api", "keys"}
    /\ rf.pc = "fundamentals"
    /\ \E resp \in FundResponses(rf.symbols[rf.i]), fault \in BOOLEAN :
          LET s == rf.symbols[rf.i]
              d == fetch_fundamentals(s, resp)
              r == store_upsert("upsert_fundamentals", fundamentals,
                                FundItems(s, d, now), fault)
              count == IF d = <<>> THEN 0 ELSE r.value
              passed == [rf EXCEPT
                          !.pc = IF rf.i = Len(rf.symbols) THEN "news" ELSE "fundamentals",
                          !.i = rf.i + 1,
                          !.fund_changes_total = @ + count,
                          !.log = Append(@, [symbol |-> s, fetched |-> Len(d),
                                             count |-> count]),
                          !.fetch = NoFetch]
          IN  IF d = <<>>
              THEN /\ rf' = passed
                   /\ UNCHANGED <<tablesCreated, fundamentals, clock, ret>>
              ELSE /\ tablesCreated' = init_prices_db
                   /\ clock' = now
                   /\ fundamentals' = r.table
                   /\ IF r.raised THEN refresh_raises
                      ELSE rf' = passed /\ UNCHANGED ret
    /\ UNCHANGED <<family, prices, news, portfolioVars, conn, historyVars,
                   finnhub_enabled>>

\* news_entries = dp.fetch_news_rss(symbols=symbols);
\* news_changes = dp.upsert_news(news_entries); return {...}
refresh_news ==
    /\ family \in {"refresh", "api", "keys"}
    /\ rf.pc = "news"
    /\ \E feed \in FeedResponses, fault \in BOOLEAN :
          LET entries == fetch_news_rss(rf.symbols, feed)
              r == store_upsert("upsert_news", news, entries, fault)
              returned == [NoRet EXCEPT
                             !.op = "refresh_data",
                             !.args = rf.log,
                             !.value = [symbols |-> rf.symbols,
                                        prices_upserted |-> rf.price_changes,
                                        fundamentals_upserted |-> rf.fund_changes_total,
                                        news_upserted |-> IF entries = <<>> THEN 0
                                                          ELSE r.value]]
          IN  IF entries = <<>>
              THEN /\ ret' = returned
                   /\ rf' = NoRefresh
                   /\ UNCHANGED <<tablesCreated, news>>
              ELSE /\ tablesCreated' = init_news_db
                   /\ news' = r.table
                   /\ IF r.raised THEN refresh_raises
                      ELSE ret' = returned /\ rf' = NoRefresh
    /\ UNCHANGED <<family, prices, fundamentals, portfolioVars, clock, conn,
                   historyVars, finnhub_enabled>>

\* SELECT ... FROM news ORDER BY id DESC LIMIT 50
get_latest_news(t) == [i \in 1..Len(t) |-> t[Len(t) + 1 - i]]

\* A variant that fetches whatever the cache holds.
cache_is_empty_always(items) == TRUE

\* if not items
cache_is_empty(items) == items = <<>>

\* GET /news: the cached items; an empty cache is filled from the feeds first,
\* by fetch_news_rss without symbols and upsert_news, which get_news does not
\* guard.
get_news ==
    /\ family = "api"
    /\ \E feed \in FeedResponses, fault \in BOOLEAN :
          LET items == get_latest_news(news)
              entries == fetch_news_rss(<<>>, feed)
              r == store_upsert("upsert_news", news, entries, fault)
          IN  /\ tablesCreated' = init_news_db
              /\ IF ~cache_is_empty(items)
                 THEN /\ ret' = [NoRet EXCEPT !.op = "get_news", !.value = items]
                      /\ UNCHANGED news
                 ELSE IF entries = <<>>
                 THEN /\ ret' = [NoRet EXCEPT !.op = "get_news",
                                              !.value = get_latest_news(news)]
                      /\ UNCHANGED news
                 ELSE /\ news' = r.table
                      /\ ret' = IF r.raised
                                THEN [NoRet EXCEPT !.op = "get_news", !.raised = TRUE,
                                                   !.failure = "store"]
                                ELSE [NoRet EXCEPT !.op = "get_news",
                                                   !.value = get_latest_news(r.table)]
    /\ UNCHANGED <<family, prices, fundamentals, portfolioVars, clock, conn,
                   historyVars, refreshVars>>

\* A variant without the handler: what upsert_prices raises leaves the gathering.
try_upsert_prices_reraise(r) == r

\* try: dp.upsert_prices(prices) / except Exception: log a warning. What the
\* upsert raised is dropped, and with it the bars, which were not committed.
try_upsert_prices(r) == [r EXCEPT !.raised = FALSE]

\* _gather_market_snapshot(symbols): the bars fetched for the symbols, or for
\* the default watchlist, are written to the store and grouped by symbol.
gather_market_snapshot(symbols, r1, r2, fault) ==
    LET syms == IF symbols # <<>> THEN symbols ELSE DefaultSymbols
        bars == BarsOf(fetch_prices(syms, r1, r2))
        stored == store_upsert("upsert_prices", prices, bars, fault)
        r == IF bars = <<>> THEN [raised |-> FALSE, table |-> prices, value |-> 0]
             ELSE try_upsert_prices(stored)
    IN  [raised |-> r.raised,
         failure |-> IF bars # <<>> /\ stored.raised THEN "store" ELSE "none",
         table |-> r.table,
         tables |-> IF bars = <<>> THEN {} ELSE {"prices", "fundamentals"},
         buckets |-> { bars[i].symbol : i \in DOMAIN bars }]

\* The answers of the adapter fetch_prices turns to; the other adapter is not
\* asked.
AskedResponses(symbols) ==
    LET unasked == [x \in Range(symbols) |-> "no_data"] IN
    IF finnhub_enabled
    THEN { [finnhub |-> r, twelvedata |-> unasked] : r \in FinnhubResponses(symbols) }
    ELSE { [finnhub |-> unasked, twelvedata |-> r] : r \in TwelvedataResponses(symbols) }

\* llm is None when the import of llm_interface failed; its call raises or answers.
LlmOutcomes == {"unavailable", "error", "ok"}

\* GET /recommendations, from call to return: value is the status of the
\* response, args the symbols of the bars handed to the language model. The
\* conversation log it appends to is no part of the store.
get_recommendations(pick, formula, outcome) ==
    /\ family = "api"
    /\ IF outcome = "unavailable"
       THEN /\ ret' = [NoRet EXCEPT !.op = "get_recommendations", !.raised = TRUE,
                                    !.value = 503]
            /\ UNCHANGED <<tablesCreated, prices>>
       ELSE LET p == portfolio_data(pick, formula) IN
            IF p.raised
            THEN /\ ret' = [NoRet EXCEPT !.op = "get_recommendations", !.raised = TRUE]
                 /\ tablesCreated' = init_portfolio_db
                 /\ UNCHANGED prices
            ELSE LET all == [i \in DOMAIN p.value.holdings |-> p.value.holdings[i].ticker]
                     tickers == SelectSeq(all, LAMBDA t : t # <<>>)
                     syms == IF tickers # <<>> THEN tickers ELSE DefaultSymbols
                 IN  \E resp \in AskedResponses(syms), fault \in BOOLEAN :
                        LET g == gather_market_snapshot(tickers, resp.finnhub,
                                                        resp.twelvedata, fault)
                        IN
                        /\ prices' = g.table
                        /\ tablesCreated' =
                              IF g.raised THEN init_portfolio_db \cup g.tables
                              ELSE init_portfolio_db \cup init_news_db \cup init_prices_db
                        /\ ret' = IF g.raised
                                  THEN [NoRet EXCEPT !.op = "get_recommendations",
                                                     !.raised = TRUE,
                                                     !.failure = g.failure]
                                  ELSE IF outcome = "error"
                                  THEN [NoRet EXCEPT !.op = "get_recommendations",
                                                     !.raised = TRUE, !.value = 500,
                                                     !.failure = g.failure,
                                                     !.args = <<g.buckets>>]
                                  ELSE [NoRet EXCEPT !.op = "get_recommendations",
                                                     !.value = 200,
                                                     !.failure = g.failure,
                                                     !.args = <<g.buckets>>]
    /\ UNCHANGED <<family, fundamentals, news, portfolioVars, clock, conn,
                   historyVars, refreshVars>>

\* GET /portfolio
get_portfolio(pick, formula) ==
    /\ family = "api"
    /\ tablesCreated' = init_portfolio_db
    /\ LET r == portfolio_data(pick, formula) IN
       ret' = [NoRet EXCEPT !.op = "get_portfolio", !.raised = r.raised,
                            !.value = r.value]
    /\ UNCHANGED <<family, tableVars, portfolioVars, clock, conn, historyVars,
                   refreshVars>>

InitRefresh ==
    /\ family = "refresh"
    /\ tablesCreated = {}
    /\ prices = {}
    /\ fundamentals = {}
    /\ news = <<>>
    /\ holdings = {}
    /\ transactions = <<>>
    /\ clock = 0
    /\ conn = NoConn
    /\ ret = NoRet
    /\ written = {}
    /\ newsLatest = {}
    /\ newsFirst = {}
    /\ finnhub_enabled \in BOOLEAN
    /\ rf = NoRefresh

\* The holdings change between refreshes; a refresh reads the clock within one
\* tick of it.
NextRefresh ==
    \/ \E raw \in KnownSymbols, shares \in {0, 10} :
          rf.pc = "idle" /\ upsert_holding(raw, shares, 100)
    \/ \E symbols \in RefreshRequests, pick \in AsOfPicks, formula \in FormulaOutcomes :
          refresh_data(symbols, pick, formula)
    \/ refresh_prices
    \/ refresh_fundamentals(clock)
    \/ refresh_news

SpecRefresh == InitRefresh /\ [][NextRefresh]_vars

---------------------------------------------------------------------------
(* The requests of app.py over one store *)

\* The repository has no formulas module: formulas is None.
NoFormula == CHOOSE f \in FormulaOutcomes : f.kind = "absent"

InitApi ==
    /\ family = "api"
    /\ tablesCreated = {}
    /\ prices = {}
    /\ fundamentals = {}
    /\ news = <<>>
    /\ holdings = {}
    /\ transactions = <<>>
    /\ clock = 0
    /\ conn = NoConn
    /\ ret = NoRet
    /\ written = {}
    /\ newsLatest = {}
    /\ newsFirst = {}
    /\ finnhub_enabled = FALSE
    /\ rf = NoRefresh

\* The other requests come between refreshes; one transaction is recorded.
NextApi ==
    \/ \E shares \in {0, 10} : rf.pc = "idle" /\ upsert_holding(AAPL, shares, 100)
    \/ rf.pc = "idle" /\ transactions = <<>> /\ record_transaction(AAPL, BUY, 1, 2)
    \/ rf.pc = "idle" /\ get_news
    \/ \E pick \in AsOfPicks, outcome \in LlmOutcomes :
          rf.pc = "idle" /\ get_recommendations(pick, NoFormula, outcome)
    \/ \E pick \in AsOfPicks : rf.pc = "idle" /\ get_portfolio(pick, NoFormula)
    \/ \E symbols \in {<<>>, <<AAPL>>}, pick \in AsOfPicks :
          refresh_data(symbols, pick, NoFormula)
    \/ refresh_prices
    \/ refresh_fundamentals(clock)
    \/ refresh_news

SpecApi == InitApi /\ [][NextApi]_vars

---------------------------------------------------------------------------
(* The portfolio read, statement by statement, beside committing writers *)

MaxCommits == 2     \* most commits of other processes while one read is under way

\* What get_portfolio_data would return had it read the store as it is now, all
\* at once.
AtomicSnapshots == { portfolio_snapshot(pick, NoFormula) : pick \in AsOfPicks }

\* _init(), then sqlite3.connect and the PRAGMAs: no statement has read yet.
\* The connection runs no BEGIN, and a SELECT alone opens no transaction that
\* would outlast it: each statement reads the store as committed when it runs.
read_begin ==
    /\ family = "snapshot"
    /\ ~conn.open
    /\ tablesCreated' = init_portfolio_db
    /\ conn' = [open |-> TRUE, op |-> "get_portfolio_data", pc |-> "holdings",
                rows |-> <<>>, fundamentals_map |-> <<>>, entries |-> <<>>,
                consistent |-> {}, commits |-> 0]
    /\ ret' = NoRet
    /\ UNCHANGED <<family, tableVars, portfolioVars, clock, historyVars, refreshVars>>

\* cur = conn.execute("SELECT ticker, shares, avg_cost FROM holdings ORDER BY
\* ticker ASC"); rows = cur.fetchall(). Without rows _fetch_fundamentals_for
\* returns {} and the loop has no pass.
read_holdings ==
    /\ family = "snapshot"
    /\ conn.open
    /\ conn.pc = "holdings"
    /\ LET rows == select_holdings(holdings) IN
       conn' = [conn EXCEPT !.rows = rows,
                            !.pc = IF rows = <<>> THEN "return" ELSE "fundamentals"]
    /\ UNCHANGED <<family, tablesCreated, tableVars, portfolioVars, clock, ret,
                   historyVars, refreshVars>>

\* fundamentals_map = _fetch_fundamentals_for(conn, tickers): one SELECT, which
\* raises when the table is missing; prices is created along with it.
read_fundamentals(pick) ==
    /\ family = "snapshot"
    /\ conn.open
    /\ conn.pc = "fundamentals"
    /\ IF "fundamentals" \notin tablesCreated
       THEN /\ ret' = [NoRet EXCEPT !.op = "get_portfolio_data", !.raised = TRUE]
            /\ conn' = NoConn
       ELSE /\ conn' = [conn EXCEPT
                          !.fundamentals_map =
                              [i \in DOMAIN conn.rows |->
                                  fetch_fundamentals_for(conn.rows[i].ticker, pick)],
                          !.pc = "closes"]
            /\ UNCHANGED ret
    /\ UNCHANGED <<family, tablesCreated, tableVars, portfolioVars, clock,
                   historyVars, refreshVars>>

\* One pass of the loop: last = _latest_close_for(conn, ticker) or 0.0, one
\* SELECT on prices, and the dict of the row.
read_close ==
    /\ family = "snapshot"
    /\ conn.open
    /\ conn.pc = "closes"
    /\ LET i == Len(conn.entries) + 1
           h == conn.rows[i]
       IN  conn' = [conn EXCEPT
                      !.entries = Append(@, entry_of(h, latest_close_for(h.ticker),
                                                      conn.fundamentals_map[i])),
                      !.pc = IF i = Len(conn.rows) THEN "return" ELSE "closes"]
    /\ UNCHANGED <<family, tablesCreated, tableVars, portfolioVars, clock, ret,
                   historyVars, refreshVars>>

\* Weights, summary and score; return, conn.commit() and conn.close().
read_return ==
    /\ family = "snapshot"
    /\ conn.open
    /\ conn.pc = "return"
    /\ ret' = [NoRet EXCEPT !.op = "get_portfolio_data",
                            !.value = snapshot_of(conn.entries, NoFormula),
                            !.consistent = conn.consistent \cup AtomicSnapshots]
    /\ conn' = NoConn
    /\ UNCHANGED <<family, tablesCreated, tableVars, portfolioVars, clock,
                   historyVars, refreshVars>>

\* A commit of another process while the read is under way: the store it
\* replaces is one of the states the read could have been made of, as is the
\* store the read leaves at its return.
observe_commit ==
    /\ conn.open => conn.commits < MaxCommits
    /\ conn' = IF conn.open
               THEN [conn EXCEPT !.consistent = @ \cup AtomicSnapshots,
                                 !.commits = @ + 1]
               ELSE conn

\* upsert_holding in another process, from call to commit.
commit_holding(raw, shares, avg_cost) ==
    /\ family = "snapshot"
    /\ tablesCreated' = init_portfolio_db
    /\ holdings' = upsert_holding_rows(holdings, normalize_ticker(raw), shares, avg_cost)
    /\ UNCHANGED <<family, tableVars, transactions, clock, ret, historyVars,
                   refreshVars>>
    /\ observe_commit

\* upsert_prices in another process, from call to commit.
commit_prices(bars) ==
    /\ family = "snapshot"
    /\ bars # <<>>
    /\ tablesCreated' = init_prices_db
    /\ prices' = call_upsert("upsert_prices", prices, bars).table
    /\ UNCHANGED <<family, fundamentals, news, portfolioVars, clock, ret,
                   historyVars, refreshVars>>
    /\ observe_commit

\* upsert_fundamentals in another process, from call to commit.
commit_fundamentals(symbol, d, now) ==
    /\ family = "snapshot"
    /\ d # <<>>
    /\ tablesCreated' = init_prices_db
    /\ fundamentals' = call_upsert("upsert_fundamentals", fundamentals,
                                   FundItems(symbol, d, now)).table
    /\ UNCHANGED <<family, prices, news, portfolioVars, clock, ret, historyVars,
                   refreshVars>>
    /\ observe_commit

InitSnapshot ==
    /\ family = "snapshot"
    /\ tablesCreated = {}
    /\ prices = {}
    /\ fundamentals = {}
    /\ news = <<>>
    /\ holdings = {}
    /\ transactions = <<>>
    /\ clock = 0
    /\ conn = NoConn
    /\ ret = NoRet
    /\ written = {}
    /\ newsLatest = {}
    /\ newsFirst = {}
    /\ finnhub_enabled = TRUE
    /\ rf = NoRefresh

NextSnapshot ==
    \/ read_begin
    \/ read_holdings
    \/ \E pick \in AsOfPicks : read_fundamentals(pick)
    \/ read_close
    \/ read_return
    \/ \E raw \in KnownSymbols, shares \in {0, 10} : commit_holding(raw, shares, 100)
    \/ \E bars \in PortfolioBatches : commit_prices(bars)
    \/ \E symbol \in PortfolioFundSymbols, d \in PortfolioDicts :
          commit_fundamentals(symbol, d, clock)

SpecSnapshot == InitSnapshot /\ [][NextSnapshot]_vars

\* C20: a portfolio read that ran beside committing writers returns what a
\* read of one committed state of the store returns: its rows, fundamentals
\* and latest closes are those of one of the states the store was in between
\* the call and the return.
C20_SingleConsistentRead ==
    (ret.op = "get_portfolio_data" /\ ~ret.raised) => ret.value \in ret.consistent

---------------------------------------------------------------------------
(* Claims about the requests *)

\* C18 as stated: whenever an upsert inside an operation failed, the operation
\* raised to its caller and returned no result.
C18_StoreFailureFatal == ret.failure = "store" => ret.raised

\* C18, as the code has it: a failed upsert commits nothing; it leaves refresh
\* and the news read as an exception and no result; the market-snapshot
\* gathering of the recommendations path drops it and goes on, so that the
\* request returns its result unless the language model fails (status 500).
C18_StoreFailureFatalExceptGathering ==
    [][ ret'.failure = "store" =>
          /\ <<prices, fundamentals, news>>' = <<prices, fundamentals, news>>
          /\ ret'.op \in {"refresh_data", "get_news", "get_recommendations"}
          /\ ret'.op # "get_recommendations" =>
                ret'.raised /\ ret'.value = 0 /\ rf'.pc = "idle"
          /\ ret'.op = "get_recommendations" =>
                /\ ret'.raised <=> ret'.value = 500
                /\ ret'.args[1] # {}
      ]_vars

C18_Witness ==
    /\ ret.op = "get_recommendations"
    /\ ret.failure = "store"
    /\ ~ret.raised
    /\ ret.value = 200
    /\ AAPL \in ret.args[1]
    /\ prices = {}

\* A step of refresh_data, from the request to the result.
C19_RefreshStep == rf.pc # "idle" \/ rf'.pc # "idle" \/ ret'.op = "refresh_data"

---------------------------------------------------------------------------
(* Claims about the refresh *)

RECURSIVE SumCounts(_)
SumCounts(log) ==
    IF log = <<>> THEN 0
    ELSE (IF Head(log).fetched > 0 THEN Head(log).count ELSE 0) + SumCounts(Tail(log))

\* The refresh that ended last was over two symbols or more.
C4_MultiSymbol ==
    IF ret.raised THEN Cardinality(holdings) >= 2 ELSE Len(ret.value.symbols) >= 2

\* C4: a refresh over several symbols, the store taking every write, raises
\* nothing whichever fundamentals fetches fail; it passes over every symbol of its list, a symbol whose fetch
\* failed adds 0, and fundamentals_upserted is the sum of the upsert counts of
\* the symbols whose fetch succeeded.
C4_RefreshSumsSuccessfulFetches ==
    (ret.op = "refresh_data" /\ ret.failure # "store" /\ C4_MultiSymbol) =>
        /\ ~ret.raised
        /\ [i \in DOMAIN ret.args |-> ret.args[i].symbol] = ret.value.symbols
        /\ \A i \in DOMAIN ret.args : ret.args[i].fetched = 0 => ret.args[i].count = 0
        /\ ret.value.fundamentals_upserted = SumCounts(ret.args)

Adapters(tagged) == { tagged[i].adapter : i \in DOMAIN tagged }

C17_Tickers ==
    LET rows == select_holdings(holdings) IN [i \in DOMAIN rows |-> rows[i].ticker]

\* C17: a refresh takes the requested symbols when the request names some;
\* otherwise exactly the tickers of the current holdings, and the default
\* watchlist only when there is no holding; it passes over that list, and the
\* symbols of its result are that list.
C17_RefreshSymbolSelection ==
    [][ /\ (rf.pc = "idle" /\ (rf'.pc = "prices" \/ ret'.op = "refresh_data")) =>
              /\ ~ret'.raised
              /\ rf'.pc = "prices"
              /\ rf'.symbols = IF rf'.request # <<>> THEN rf'.request
                               ELSE IF holdings # {} THEN C17_Tickers
                               ELSE DefaultSymbols
        /\ (rf.pc = "news" /\ ret'.op = "refresh_data" /\ ~ret'.raised) =>
              /\ ret'.value.symbols = rf.symbols
              /\ [i \in DOMAIN ret'.args |-> ret'.args[i].symbol] = rf.symbols
      ]_vars

---------------------------------------------------------------------------
(* Two upsert_prices calls at once, each on its own connection *)

Writers == {1, 2}

WriterBars ==
    { PriceBar(AAPL, "2024-01-02", v) : v \in Ohlcv }
      \cup { PriceBar(MSFT, "2024-01-02", CHOOSE v \in Ohlcv : v.close = 2),
             PriceBar(AAPL, "2024-01-03", CHOOSE v \in Ohlcv : v.close = 5) }

WriterBatches ==
    { <<b>> : b \in WriterBars } \cup { <<a, b>> : a, b \in WriterBars }

\* A call not yet made. overlap tells that the other call held the write lock
\* when this one connected.
NoWriter ==
    [pc |-> "idle", args |-> <<>>, todo |-> <<>>, work |-> {}, overlap |-> FALSE]

\* A variant in which a statement runs whoever holds the write lock.
write_lock_ignored(lock, p) == TRUE

\* SQLite has one writer at a time: the first INSERT of a transaction takes the
\* write lock of the database file, and conn.commit() gives it back.
write_lock_free(lock, p) == lock \in {0, p}

\* upsert_prices(bars) up to the yield of _db: _init_prices_db(), connect, PRAGMAs.
writer_call(p, bars) ==
    /\ family = "writers"
    /\ conn.w[p].pc = "idle"
    /\ tablesCreated' = init_prices_db
    /\ conn' = [conn EXCEPT !.open = TRUE,
                            !.w[p] = [pc |-> "connected", args |-> bars, todo |-> bars,
                                      work |-> {}, overlap |-> conn.lock # 0]]
    /\ UNCHANGED <<family, tableVars, portfolioVars, clock, ret, historyVars,
                   refreshVars>>

\* The first statement of executemany: BEGIN, the write lock, and the INSERT
\* over the table as committed by then.
writer_begin(p) ==
    /\ family = "writers"
    /\ conn.w[p].pc = "connected"
    /\ write_lock_free(conn.lock, p)
    /\ conn' = [conn EXCEPT !.lock = p,
                            !.w[p].pc = "writing",
                            !.w[p].work = upsert_prices_row(prices, Head(conn.w[p].todo)),
                            !.w[p].todo = Tail(@)]
    /\ UNCHANGED <<family, tablesCreated, tableVars, portfolioVars, clock, ret,
                   historyVars, refreshVars>>

\* The lock stayed with the other connection for the whole busy timeout:
\* sqlite3.OperationalError (database is locked) leaves upsert_prices.
writer_locked(p) ==
    /\ family = "writers"
    /\ conn.w[p].pc = "connected"
    /\ ~write_lock_free(conn.lock, p)
    /\ conn' = [conn EXCEPT !.w[p].pc = "raised",
                            !.open = conn.w[3 - p].pc \in {"connected", "writing"}]
    /\ UNCHANGED <<family, tablesCreated, tableVars, portfolioVars, clock, ret,
                   historyVars, refreshVars>>

\* One more statement of executemany.
writer_step(p) ==
    /\ family = "writers"
    /\ conn.w[p].pc = "writing"
    /\ conn.w[p].todo # <<>>
    /\ conn' = [conn EXCEPT !.w[p].work = upsert_prices_row(@, Head(conn.w[p].todo)),
                            !.w[p].todo = Tail(@)]
    /\ UNCHANGED <<family, tablesCreated, tableVars, portfolioVars, clock, ret,
                   historyVars, refreshVars>>

\* return conn.total_changes; conn.commit(); conn.close().
writer_commit(p) ==
    /\ family = "writers"
    /\ conn.w[p].pc = "writing"
    /\ conn.w[p].todo = <<>>
    /\ prices' = conn.w[p].work
    /\ conn' = [conn EXCEPT !.lock = IF @ = p THEN 0 ELSE @,
                            !.order = Append(@, p),
                            !.w[p].pc = "returned",
                            !.open = conn.w[3 - p].pc \in {"connected", "writing"}]
    /\ UNCHANGED <<family, tablesCreated, fundamentals, news, portfolioVars, clock,
                   ret, historyVars, refreshVars>>

\* The table the two calls find is empty or holds a bar.
InitWriters ==
    /\ family = "writers"
    /\ tablesCreated = {}
    /\ prices \in { {}, {PriceBar(AAPL, "2024-01-02", CHOOSE v \in Ohlcv : v.close = 5)} }
    /\ fundamentals = {}
    /\ news = <<>>
    /\ holdings = {}
    /\ transactions = <<>>
    /\ clock = 0
    /\ conn = [open |-> FALSE, lock |-> 0, base |-> prices, order |-> <<>>,
               w |-> [p \in Writers |-> NoWriter]]
    /\ ret = NoRet
    /\ written = {}
    /\ newsLatest = {}
    /\ newsFirst = {}
    /\ finnhub_enabled = TRUE
    /\ rf = NoRefresh

NextWriters ==
    \/ \E p \in Writers, bars \in WriterBatches : writer_call(p, bars)
    \/ \E p \in Writers : writer_begin(p)
    \/ \E p \in Writers : writer_locked(p)
    \/ \E p \in Writers : writer_step(p)
    \/ \E p \in Writers : writer_commit(p)

SpecWriters == InitWriters /\ [][NextWriters]_vars

\* The table after the statements of a batch, run in order.
RECURSIVE C22_Apply(_, _)
C22_Apply(t, bars) ==
    IF bars = <<>> THEN t ELSE C22_Apply(upsert_prices_row(t, Head(bars)), Tail(bars))

C22_Symbols(bars) == { bars[i].symbol : i \in DOMAIN bars }

C22_BothReturned == \A p \in Writers : conn.w[p].pc = "returned"

\* C22: when two upsert_prices calls that ran at once have both returned, the
\* table is that of the two batches applied one after the other in the order
\* of their commits; for batches over disjoint symbols it is also that of the
\* other order; a key both batches wrote carries the values of the batch that
\* committed last.
C22_DisjointBatchesCommute ==
    C22_BothReturned =>
        LET a == conn.w[conn.order[1]].args
            b == conn.w[conn.order[2]].args
        IN  /\ prices = C22_Apply(C22_Apply(conn.base, a), b)
            /\ C22_Symbols(a) \cap C22_Symbols(b) = {} =>
                  prices = C22_Apply(C22_Apply(conn.base, b), a)
            /\ \A i \in DOMAIN a :
                  (\E j \in DOMAIN b : BarKey(b[j]) = BarKey(a[i])) =>
                      \E r \in prices, j \in DOMAIN b :
                          /\ BarKey(r) = BarKey(a[i])
                          /\ r = b[j]
                          /\ \A k \in DOMAIN b : BarKey(b[k]) = BarKey(r) => k <= j

\* Two calls over disjoint symbols, the second of which connected while the
\* first held the write lock, after both returned.
C22_Witness ==
    /\ C22_BothReturned
    /\ conn.w[conn.order[2]].overlap
    /\ C22_Symbols(conn.w[1].args) \cap C22_Symbols(conn.w[2].args) = {}
    /\ Len(conn.w[1].args) = 2
    /\ conn.base # {}
    /\ Cardinality(prices) >= 3

---------------------------------------------------------------------------
(* The batches of a refresh *)

\* The table after the statements of a batch of any of the three tables.
RECURSIVE C23_Apply(_, _, _)
C23_Apply(op, t, rows) ==
    IF rows = <<>> THEN t
    ELSE C23_Apply(op, UpsertRow(op, t, Head(rows)), Tail(rows))

C23_Failed == ret'.op = "refresh_data" /\ ret'.failure = "store" /\ rf'.pc = "idle"

\* C23: a refresh writes one table at a step, in the order prices, the
\* fundamentals of each symbol in list order, news. A step leaves its table as
\* it was or as the whole batch makes it; a step in which the store failed
\* leaves every table as it was and ends the refresh, so that the batches
\* committed by a refresh that failed or stopped are the first ones of that
\* order, each of them whole.
C23_RefreshCommitsPrefix ==
    [][ /\ rf.pc = "idle" => <<prices, fundamentals, news>>' = <<prices, fundamentals, news>>
        /\ rf.pc = "prices" =>
              /\ <<fundamentals, news>>' = <<fundamentals, news>>
              /\ \/ C23_Failed /\ prices' = prices
                 \/ /\ rf'.pc = "fundamentals" /\ rf'.i = 1
                    /\ prices' = C23_Apply("upsert_prices", prices,
                                           BarsOf(rf'.fetch.fetched))
        /\ rf.pc = "fundamentals" =>
              /\ <<prices, news>>' = <<prices, news>>
              /\ \/ C23_Failed /\ fundamentals' = fundamentals
                 \/ /\ rf'.i = rf.i + 1
                    /\ rf'.pc = IF rf.i < Len(rf.symbols) THEN "fundamentals" ELSE "news"
                    /\ rf'.log[rf.i].symbol = rf.symbols[rf.i]
                    /\ \E resp \in FundResponses(rf.symbols[rf.i]) :
                          fundamentals' =
                             C23_Apply("upsert_fundamentals", fundamentals,
                                       FundItems(rf.symbols[rf.i],
                                                 fetch_fundamentals(rf.symbols[rf.i], resp),
                                                 clock'))
        /\ rf.pc = "news" =>
              /\ <<prices, fundamentals>>' = <<prices, fundamentals>>
              /\ rf'.pc = "idle"
              /\ \/ C23_Failed /\ news' = news
                 \/ /\ ~ret'.raised
                    /\ \E feed \in FeedResponses :
                          news' = C23_Apply("upsert_news", news,
                                            fetch_news_rss(rf.symbols, feed))
      ]_vars

\* A refresh that failed at its news batch, after it had committed its prices
\* and the fundamentals of a symbol: the news table is still empty.
C23_Witness ==
    /\ ret.op = "refresh_data"
    /\ ret.failure = "store"
    /\ ret.raised
    /\ Len(ret.args) >= 2
    /\ \E i \in DOMAIN ret.args : ret.args[i].count > 0
    /\ prices # {}
    /\ fundamentals # {}
    /\ news = <<>>

---------------------------------------------------------------------------
(* Sector exposure *)

\* The sectors the store is given for a symbol: a name, no name, and a text
\* that reads as a number.
SectorTexts == { <<"T", "e", "c", "h">>, <<>>, <<"0">> }

SectorTickers == {AAPL, MSFT, GOOG}

SectorBars ==
    << PriceBar(AAPL, "2024-01-02", CHOOSE v \in Ohlcv : v.close = 2),
       PriceBar(MSFT, "2024-01-02", CHOOSE v \in Ohlcv : v.close = 5),
       PriceBar(GOOG, "2024-01-02", CHOOSE v \in Ohlcv : v.close = 5) >>

InitSector ==
    /\ family = "sector"
    /\ tablesCreated = {}
    /\ prices = {}
    /\ fundamentals = {}
    /\ news = <<>>
    /\ holdings = {}
    /\ transactions = <<>>
    /\ clock = 0
    /\ conn = NoConn
    /\ ret = NoRet
    /\ written = {}
    /\ newsLatest = {}
    /\ newsFirst = {}
    /\ finnhub_enabled = TRUE
    /\ rf = NoRefresh

NextSector ==
    \/ \E raw \in SectorTickers, shares \in {0, 1} : upsert_holding(raw, shares, 1)
    \/ upsert_prices_call(SectorBars)
    \/ \E symbol \in SectorTickers, text \in SectorTexts :
          upsert_fundamentals_call(symbol, << [k |-> "sector", v |-> PyStrVal(text)] >>,
                                   clock)
    \/ \E pick \in AsOfPicks : get_portfolio_data(pick, NoFormula)

SpecSector == InitSector /\ [][NextSector]_vars

C24_Returned == ret.op = "get_portfolio_data" /\ ~ret.raised

\* The text stored as the sector of a holding, <<>> where there is none.
C24_StoredSector(ticker) ==
    LET rows == { r \in fundamentals : r.symbol = ticker /\ r.key = "sector" } IN
    IF rows = {} THEN <<>> ELSE (CHOOSE r \in rows : TRUE).value

C24_Name(ticker) ==
    IF C24_StoredSector(ticker) = <<>> THEN Unclassified
    ELSE PyStrVal(C24_StoredSector(ticker))

\* The sector of a holding as the exposure has it: that of its fundamentals,
\* "Unclassified" where it is absent, empty or zero.
C24_Sector(h) ==
    LET vs == { a.value : a \in { b \in h.fundamentals.attrs : b.key = "sector" } } IN
    IF vs = {} \/ \A v \in vs : ~truthy(v) THEN Unclassified
    ELSE CHOOSE v \in vs : TRUE

\* The sums, the order and the weights of the exposure, for a grouping by g.
C24_Exposure(g(_)) ==
    LET hs == ret.value.holdings
        sm == ret.value.summary
        se == sm.sector_exposure
    IN  /\ \A i \in DOMAIN hs : \E j \in DOMAIN se : se[j].sector = g(hs[i])
        /\ \A j \in DOMAIN se :
              /\ \E i \in DOMAIN hs : g(hs[i]) = se[j].sector
              /\ \A k \in DOMAIN se : se[k].sector = se[j].sector => k = j
              /\ LET Keep(h) == g(h) = se[j].sector IN
                 se[j].value = Sum(SelectSeq(hs, Keep), "market_value")
              /\ se[j].weight = IF sm.total_value # 0
                                THEN Frac(se[j].value, sm.total_value)
                                ELSE Frac(0, 1)
              /\ j > 1 => se[j - 1].value >= se[j].value
        /\ Sum(se, "value") = sm.total_value

\* C24 as stated: the exposure of a returned snapshot groups the holdings by
\* the sector stored for them, "Unclassified" where none or an empty one is
\* stored; every sector is there once with the sum of its holdings' market
\* values, the values sum to total_value, the entries descend by value and a
\* weight is value / total_value, 0 when total_value is 0.
C24_SectorExposureByStoredSector ==
    C24_Returned =>
        LET ByStored(h) == C24_Name(h.ticker) IN C24_Exposure(ByStored)

\* C24, amended: the same, the sector of a holding being the value read from
\* its fundamentals, "Unclassified" when it is absent, empty or reads as zero.
C24_SectorExposure ==
    C24_Returned =>
        LET ByRead(h) == C24_Sector(h) IN C24_Exposure(ByRead)

\* The first holding has a sector, the two others share "Unclassified", which
\* holds more and comes first.
C24_Witness ==
    /\ C24_Returned
    /\ Len(ret.value.holdings) = 3
    /\ sector_of(ret.value.holdings[1].fundamentals) = PyStrVal(<<"T", "e", "c", "h">>)
    /\ Len(ret.value.summary.sector_exposure) = 2
    /\ ret.value.summary.sector_exposure[1].sector = Unclassified
    /\ ret.value.summary.sector_exposure[1].value = 10
    /\ ret.value.summary.sector_exposure[2].value = 2
    /\ ret.value.summary.total_value = 12

---------------------------------------------------------------------------
(* The connection of an operation *)

C25_Tables == <<prices, fundamentals, news>>

\* C25: an operation works on a connection it opened itself, which has run
\* nothing yet; the step in which the operation returns or raises leaves no
\* connection open, and the tables change at no other step than the return of
\* an operation whose body ran to its end without raising.
C25_ConnectionClosedOnEveryExit ==
    [][ /\ (~conn.open /\ conn'.open) =>
              /\ conn'.changes = 0
              /\ conn'.work = conn'.pre
              /\ conn'.todo = conn'.args
              /\ ret' = NoRet
        /\ (conn.open /\ ret' # ret) => (~conn'.open /\ ret'.op = conn.op)
        /\ (conn.open /\ conn'.open) => (ret' = ret /\ conn'.op = conn.op)
        /\ C25_Tables' # C25_Tables =>
              /\ conn.open
              /\ ~conn'.open
              /\ conn.todo = <<>>
              /\ ~ret'.raised
      ]_vars

\* An operation raised after statements of its batch had run, before others
\* had: its connection is closed and the table is as it was before the call.
C25_Witness ==
    /\ ret.op \in {"upsert_prices", "upsert_fundamentals", "upsert_news"}
    /\ ret.raised
    /\ ret.executed >= 1
    /\ ~conn.open
    /\ ret.pre # Empty(ret.op)
    /\ ret.pre = (IF ret.op = "upsert_prices" THEN prices
                  ELSE IF ret.op = "upsert_fundamentals" THEN fundamentals
                  ELSE news)

---------------------------------------------------------------------------
(* The two readers of fundamentals *)

\* _coerce_value: float(value) where it parses, an int when that float is
\* integral, the text otherwise.
coerce_value(value) ==
    LET number == float_of(value) IN
    IF ~number.some THEN PyStrVal(value)
    ELSE IF number.v.frac = 0 THEN PyInt(number.v.whole)
    ELSE number.v

\* get_fundamentals(symbols): the rows of the symbols asked for, or of all when
\* none is named, one entry to a symbol.
fundamentals_of(symbols, pick) ==
    LET asked == { normalize_ticker(symbols[i]) : i \in DOMAIN symbols }
        rows == { r \in fundamentals :
                    /\ symbols # <<>> => r.symbol \in asked
                    /\ r.symbol # <<>>
                    /\ r.key # "" }
    IN  { [symbol |-> s, as_of |-> pick[s],
           attrs |-> { [key |-> r.key, value |-> coerce_value(r.value)] :
                        r \in { q \in rows : normalize_ticker(q.symbol) = s } }] :
          s \in { normalize_ticker(r.symbol) : r \in rows } }

get_fundamentals(symbols, pick) ==
    /\ family = "coerce"
    /\ tablesCreated' = init_prices_db
    /\ ret' = [NoRet EXCEPT !.op = "get_fundamentals", !.args = symbols,
                            !.value = fundamentals_of(symbols, pick)]
    /\ UNCHANGED <<family, tableVars, portfolioVars, clock, conn, historyVars,
                   refreshVars>>

\* The values a caller stores: floats with and without a fractional part, an
\* int and a text.
CoerceValues == { PyFloat(5, 0), PyFloat(2, 5), PyInt(7), PyStrVal(<<"T", "e", "c", "h">>) }

CoerceKeys == {"pe", "beta"}

CoerceSymbols == {AAPL, MSFT}

InitCoerce ==
    /\ family = "coerce"
    /\ tablesCreated = {}
    /\ prices = {}
    /\ fundamentals = {}
    /\ news = <<>>
    /\ holdings = {}
    /\ transactions = <<>>
    /\ clock = 0
    /\ conn = NoConn
    /\ ret = NoRet
    /\ written = {}
    /\ newsLatest = {}
    /\ newsFirst = {}
    /\ finnhub_enabled = TRUE
    /\ rf = NoRefresh

NextCoerce ==
    \/ \E raw \in CoerceSymbols, shares \in {0, 1} : upsert_holding(raw, shares, 1)
    \/ \E symbol \in CoerceSymbols, k \in CoerceKeys, v \in CoerceValues :
          upsert_fundamentals_call(symbol, << [k |-> k, v |-> v] >>, clock)
    \/ \E symbols \in {<<>>, <<AAPL>>, <<aapl, MSFT>>}, pick \in AsOfPicks :
          get_fundamentals(symbols, pick)
    \/ \E pick \in AsOfPicks : get_portfolio_data(pick, NoFormula)

SpecCoerce == InitCoerce /\ [][NextCoerce]_vars

\* The typed value of a stored text: an integer when it is numeric with no
\* fractional component, a float when it has one, the text otherwise.
C26_Typed(text) ==
    LET number == float_of(text) IN
    IF ~number.some THEN PyStrVal(text)
    ELSE IF number.v.frac = 0 THEN PyInt(number.v.whole)
    ELSE PyFloat(number.v.whole, number.v.frac)

C26_Stored(symbol) ==
    { [key |-> r.key, value |-> C26_Typed(r.value)] :
        r \in { q \in fundamentals : q.symbol = symbol } }

\* C26: what get_fundamentals returns for a symbol and what a snapshot carries
\* as the fundamentals of a holding of that symbol are the typed values of the
\* texts stored, the same in both.
C26_ReadPathsCoerceAlike ==
    /\ (ret.op = "get_fundamentals" /\ ~ret.raised) =>
          \A e \in ret.value : e.attrs = C26_Stored(e.symbol)
    /\ (ret.op = "get_portfolio_data" /\ ~ret.raised) =>
          \A i \in DOMAIN ret.value.holdings :
             ret.value.holdings[i].fundamentals.attrs
                = C26_Stored(ret.value.holdings[i].ticker)

\* The same for get_fundamentals alone.
C26_GetFundamentalsTyped ==
    (ret.op = "get_fundamentals" /\ ~ret.raised) =>
        \A e \in ret.value : e.attrs = C26_Stored(e.symbol)

---------------------------------------------------------------------------
(* The dates of the price adapters *)

Pad2(n) == Digit(n \div 10) \o Digit(n % 10)

Pad4(n) == Pad2(n \div 100) \o Pad2(n % 100)

\* datetime.utcfromtimestamp(t).strftime("%Y-%m-%d"): the civil date of the
\* day that holds second t of the epoch.
utc_day_text(t) ==
    LET z == (t \div 86400) + 719468
        era == z \div 146097
        doe == z - era * 146097
        yoe == (doe - doe \div 1460 + doe \div 36524 - doe \div 146096) \div 365
        doy == doe - (365 * yoe + yoe \div 4 - yoe \div 100)
        mp == (5 * doy + 2) \div 153
        d == doy - (153 * mp + 2) \div 5 + 1
        m == IF mp < 10 THEN mp + 3 ELSE mp - 9
        y == yoe + era * 400 + (IF m <= 2 THEN 1 ELSE 0)
    IN  Pad4(y) \o "-" \o Pad2(m) \o "-" \o Pad2(d)

AdapterOhlcv == CHOOSE v \in Ohlcv : v.close = 2

\* The candles of one symbol: the loop stops at the first t[i] that int()
\* rejects, and the except clause keeps what the loop has appended.
RECURSIVE finnhub_candles(_, _)
finnhub_candles(symbol, t) ==
    IF t = <<>> \/ ~Head(t).some THEN <<>>
    ELSE <<PriceBar(symbol, utc_day_text(Head(t).v), AdapterOhlcv)>>
         \o finnhub_candles(symbol, Tail(t))

\* _fetch_prices_finnhub: a request that raises or answers s # "ok" adds
\* nothing and the loop goes on with the next symbol.
RECURSIVE fetch_prices_finnhub_dated(_, _)
fetch_prices_finnhub_dated(symbols, resp) ==
    IF symbols = <<>> THEN <<>>
    ELSE (IF resp[Head(symbols)].s = "ok"
          THEN finnhub_candles(Head(symbols), resp[Head(symbols)].t) ELSE <<>>)
         \o fetch_prices_finnhub_dated(Tail(symbols), resp)

\* str(row.get("datetime")): the text as the provider sent it, "None" when the
\* row has no such field.
twelvedata_date(row) == IF row.datetime.some THEN row.datetime.v ELSE "None"

\* _fetch_prices_twelvedata: one bar to a row of payload["values"].
RECURSIVE fetch_prices_twelvedata_dated(_, _)
fetch_prices_twelvedata_dated(symbols, resp) ==
    IF symbols = <<>> THEN <<>>
    ELSE (IF resp[Head(symbols)].s = "ok"
          THEN LET values == resp[Head(symbols)].values IN
               [i \in DOMAIN values |->
                   PriceBar(Head(symbols), twelvedata_date(values[i]), AdapterOhlcv)]
          ELSE <<>>)
         \o fetch_prices_twelvedata_dated(Tail(symbols), resp)

\* Seconds of the epoch: the first and the last second of 2024-01-02 and the
\* first of 2024-01-03, and an entry that is no number.
Stamps == { Just(1704153600), Just(1704239999), Just(1704240000), Nothing }

\* The datetime of a row: a day, a day with a time, or none.
Datetimes ==
    { Just("2024-01-02"), Just("2024-01-03 09:30:00"), [some |-> FALSE, v |-> ""] }

MaxCandles == 2     \* most candles or rows in an answer

FinnhubAnswers ==
    { [s |-> "error", t |-> <<>>], [s |-> "no_data", t |-> <<>>] }
    \cup { [s |-> "ok", t |-> t] :
             t \in UNION { [1..n -> Stamps] : n \in 1..MaxCandles } }

TwelvedataAnswers ==
    { [s |-> "error", values |-> <<>>] }
    \cup { [s |-> "ok", values |-> [i \in DOMAIN d |-> [datetime |-> d[i]]]] :
             d \in UNION { [1..n -> Datetimes] : n \in 0..MaxCandles } }

AdapterSymbols == { <<AAPL>>, <<AAPL, MSFT>> }

\* fetch_prices(symbols): the adapter the configuration names, asked for
\* every symbol.
fetch_prices_call(symbols, resp) ==
    /\ family = "adapters"
    /\ ret' = [NoRet EXCEPT !.op = "fetch_prices",
                            !.args = <<symbols, resp>>,
                            !.value = IF finnhub_enabled
                                      THEN fetch_prices_finnhub_dated(symbols, resp)
                                      ELSE fetch_prices_twelvedata_dated(symbols, resp)]
    /\ UNCHANGED <<family, tablesCreated, tableVars, portfolioVars, clock, conn,
                   historyVars, refreshVars>>

InitAdapters ==
    /\ family = "adapters"
    /\ tablesCreated = {}
    /\ prices = {}
    /\ fundamentals = {}
    /\ news = <<>>
    /\ holdings = {}
    /\ transactions = <<>>
    /\ clock = 0
    /\ conn = NoConn
    /\ ret = NoRet
    /\ written = {}
    /\ newsLatest = {}
    /\ newsFirst = {}
    /\ finnhub_enabled \in BOOLEAN
    /\ rf = NoRefresh

\* prices = fetch_prices(symbols), then upsert_prices(prices): a fetch writes
\* nothing, and what follows it is the upsert of its bars.
NextAdapters ==
    \/ \E symbols \in AdapterSymbols :
          /\ ret.op # "fetch_prices"
          /\ \E resp \in [Range(symbols) ->
                             IF finnhub_enabled THEN FinnhubAnswers
                             ELSE TwelvedataAnswers] :
                fetch_prices_call(symbols, resp)
    \/ /\ ret.op = "fetch_prices"
       /\ upsert_prices_call(ret.value)

SpecAdapters == InitAdapters /\ [][NextAdapters]_vars

\* The calendar days in the format YYYY-MM-DD, of the years of the model.
C27_IsoDays ==
    { Pad4(y) \o "-" \o Pad2(m) \o "-" \o Pad2(d) :
        y \in 2023..2025, m \in 1..12, d \in 1..31 }

C27_Fetched == ret.op = "fetch_prices"

\* The bars fetch_prices returned for a symbol.
C27_BarsOf(symbol) == SelectSeq(ret.value, LAMBDA b : b.symbol = symbol)

\* C27, the dates: every bar an adapter returns and every row of prices has a
\* date that is a calendar day YYYY-MM-DD.
C27_DatesAreIsoDays ==
    /\ \A r \in prices : r.date \in C27_IsoDays
    /\ C27_Fetched => \A i \in DOMAIN ret.value : ret.value[i].date \in C27_IsoDays

\* The same for the bars of the Finnhub adapter alone.
C27_FinnhubDatesAreIsoDays ==
    (C27_Fetched /\ finnhub_enabled) =>
        \A i \in DOMAIN ret.value : ret.value[i].date \in C27_IsoDays

\* C27, the failures: a symbol whose request failed has no bar in what
\* fetch_prices returns, and every other symbol has the bars of its answer.
C27_FailedSymbolAddsNothing ==
    C27_Fetched =>
        LET symbols == ret.args[1]
            resp == ret.args[2]
        IN  \A k \in DOMAIN symbols :
               /\ resp[symbols[k]].s # "ok" => C27_BarsOf(symbols[k]) = <<>>
               /\ (resp[symbols[k]].s = "ok" /\ ~finnhub_enabled) =>
                     Len(C27_BarsOf(symbols[k])) = Len(resp[symbols[k]].values)
               /\ (resp[symbols[k]].s = "ok" /\ finnhub_enabled
                      /\ \A i \in DOMAIN resp[symbols[k]].t : resp[symbols[k]].t[i].some) =>
                     Len(C27_BarsOf(symbols[k])) = Len(resp[symbols[k]].t)

---------------------------------------------------------------------------
(* The symbols of a refresh and the tickers of the holdings *)

\* The lists a request names: the ticker of the holding as upsert_holding
\* keeps it, and the same in lower case.
KeyRequests == { <<AAPL>>, <<aapl>> }

InitKeys ==
    /\ family = "keys"
    /\ tablesCreated = {}
    /\ prices = {}
    /\ fundamentals = {}
    /\ news = <<>>
    /\ holdings = {}
    /\ transactions = <<>>
    /\ clock = 0
    /\ conn = NoConn
    /\ ret = NoRet
    /\ written = {}
    /\ newsLatest = {}
    /\ newsFirst = {}
    /\ finnhub_enabled \in BOOLEAN
    /\ rf = NoRefresh

NextKeys ==
    \/ \E shares \in {0, 10} : rf.pc = "idle" /\ upsert_holding(aapl, shares, 100)
    \/ \E symbols \in KeyRequests, pick \in AsOfPicks :
          refresh_data(symbols, pick, NoFormula)
    \/ refresh_prices
    \/ refresh_fundamentals(clock)
    \/ refresh_news
    \/ \E pick \in AsOfPicks : rf.pc = "idle" /\ get_portfolio_data(pick, NoFormula)

SpecKeys == InitKeys /\ [][NextKeys]_vars

\* The bars and the fundamentals stored for a ticker under the symbol of a
\* request, whatever its letter case.
C28_Bars(ticker) == { r \in prices : C10_Key(r.symbol) = ticker }

C28_Fundamentals(ticker) == { r \in fundamentals : C10_Key(r.symbol) = ticker }

C28_Snapshot == ret.op = "get_portfolio_data" /\ ~ret.raised

\* C28: in a snapshot, a holding for whose ticker refreshes have stored bars,
\* under the symbol of their request in any letter case, has for last the
\* close of the latest of them, and one for which they have stored
\* fundamentals carries these.
C28_SymbolKeysAgree ==
    C28_Snapshot =>
        \A i \in DOMAIN ret.value.holdings :
            LET h == ret.value.holdings[i] IN
            /\ C28_Bars(h.ticker) # {} =>
                  \E r \in C28_Bars(h.ticker) :
                     /\ \A q \in C28_Bars(h.ticker) : DateRank(q.date) <= DateRank(r.date)
                     /\ h.last = r.close
            /\ C28_Fundamentals(h.ticker) # {} =>
                  { a.key : a \in h.fundamentals.attrs }
                     = { r.key : r \in C28_Fundamentals(h.ticker) }

\* The same for the refreshes that name the ticker as the holdings keep it.
C28_UpperCaseKeysAgree ==
    (C28_Snapshot /\ \A r \in prices \cup fundamentals : r.symbol = C10_Key(r.symbol)) =>
        \A i \in DOMAIN ret.value.holdings :
            LET h == ret.value.holdings[i] IN
            /\ C28_Bars(h.ticker) # {} =>
                  \E r \in C28_Bars(h.ticker) :
                     /\ \A q \in C28_Bars(h.ticker) : DateRank(q.date) <= DateRank(r.date)
                     /\ h.last = r.close
            /\ C28_Fundamentals(h.ticker) # {} =>
                  { a.key : a \in h.fundamentals.attrs }
                     = { r.key : r \in C28_Fundamentals(h.ticker) }

====
